---- MODULE Spec2Model ----
(***************************************************************************)
(* Proctoring Integrity Engine.                                            *)
(*                                                                         *)
(* BrowserProctoringService (the Environment Integrity Monitor) and        *)
(* ProctoringDetectionService (the Visual Behavior Analyzer), each         *)
(* modelled as a state machine.  Every method of a service is an operator  *)
(* from the service (a record of its fields and of the browser objects it  *)
(* touches) to the service after the call, so that a handler that calls    *)
(* other methods is the composition of their operators.  An action applies *)
(* one handler to the current state.                                       *)
(***************************************************************************)
EXTENDS Integers, Sequences, FiniteSets, TLC

(***************************************************************************)
(* Bounds of the model.                                                    *)
(***************************************************************************)
\* The violation log grows to this length,
MaxLog == 2
\* and to this one while all its violations are of one type.
MaxRun == 5
\* Most fullscreen requests (of startMonitoring) and exit requests in flight.
MaxPending == 1
\* Most delayed fullscreen re-requests (setTimeout) outstanding.
MaxTimers == 2
\* Most handlers of one event, and most interval polls, registered at once.
MaxHandlers == 2
\* Most detection loops alive at once: animation frames requested plus
\* inference calls in flight.
MaxLoops == 2
\* The suspicion counter is followed up to this value where the analyzer
\* runs beside the monitor.
MaxSuspicion == 4
\* Most subscriptions made (onViolation and onTermination calls).
MaxSubscribers == 3

NULL == "null"
\* this.windowSize before the first start (null).
NullSize == [width |-> -1, height |-> -1]

(***************************************************************************)
(* types/browserProctoring.types.ts                                        *)
(***************************************************************************)
ViolationType ==
  { "TAB_SWITCH", "WINDOW_BLUR", "FULLSCREEN_EXIT", "RIGHT_CLICK",
    "DEV_TOOLS", "COPY_PASTE", "WINDOW_RESIZE", "KEYBOARD_SHORTCUT" }

\* A threshold of 0 stands for a type with no entry in the Partial record
\* (undefined); the code treats both as "no threshold" (threshold && ...).
DEFAULT_CONFIG_TabSwitch4 ==
  [ enableFullscreen             |-> TRUE,
    enableTabSwitchDetection     |-> TRUE,
    enableWindowBlurDetection    |-> TRUE,
    enableRightClickPrevention   |-> TRUE,
    enableDevToolsPrevention     |-> TRUE,
    enableCopyPastePrevention    |-> TRUE,
    enableResizeDetection        |-> TRUE,
    maxViolations                |-> 10,
    violationThresholds          |->
      [ TAB_SWITCH |-> 4, WINDOW_BLUR |-> 3, FULLSCREEN_EXIT |-> 2,
        RIGHT_CLICK |-> 5, DEV_TOOLS |-> 1, COPY_PASTE |-> 5,
        WINDOW_RESIZE |-> 3, KEYBOARD_SHORTCUT |-> 3 ],
    warningThresholds            |-> [low |-> 2, medium |-> 5, high |-> 8],
    autoTerminateOnMaxViolations |-> TRUE,
    screenshotOnViolation        |-> TRUE ]

DEFAULT_CONFIG ==
  [ enableFullscreen             |-> TRUE,
    enableTabSwitchDetection     |-> TRUE,
    enableWindowBlurDetection    |-> TRUE,
    enableRightClickPrevention   |-> TRUE,
    enableDevToolsPrevention     |-> TRUE,
    enableCopyPastePrevention    |-> TRUE,
    enableResizeDetection        |-> TRUE,
    maxViolations                |-> 10,
    violationThresholds          |->
      [ TAB_SWITCH |-> 3, WINDOW_BLUR |-> 3, FULLSCREEN_EXIT |-> 2,
        RIGHT_CLICK |-> 5, DEV_TOOLS |-> 1, COPY_PASTE |-> 5,
        WINDOW_RESIZE |-> 3, KEYBOARD_SHORTCUT |-> 3 ],
    warningThresholds            |-> [low |-> 2, medium |-> 5, high |-> 8],
    autoTerminateOnMaxViolations |-> TRUE,
    screenshotOnViolation        |-> TRUE ]

\* The events setupEventListeners may listen to.
EventNames ==
  { "visibilitychange", "blur", "contextmenu", "keydown", "copy", "cut",
    "paste", "resize", "fullscreenchange" }

\* The events whose handler setupEventListeners adds as a capturing one
\* (addEventListener(event, handler, true)).
Capturing == {"keydown"}

\* The state the constructor builds.
InitialState ==
  [ isMonitoring    |-> FALSE,
    isFullscreen    |-> FALSE,
    violations      |-> << >>,
    violationCounts |-> [t \in ViolationType |-> 0],
    totalViolations |-> 0,
    warningLevel    |-> "none",
    isTerminated    |-> FALSE ]

\* No getState() call yet.
NoSnapshot == [taken |-> FALSE, shared |-> FALSE, state |-> InitialState]

\* The browser objects the service acts on: the handlers registered per
\* event (a count: every setupEventListeners call makes new closures), the
\* running setInterval polls, document.fullscreenElement, and what is in
\* flight: startMonitoring calls awaiting their fullscreen request,
\* re-requests of fullscreen made by timers, exitFullscreen requests, and
\* the timers of handleFullscreenChange.
InitialBrowser ==
  [ listeners         |-> [e \in EventNames |-> 0],
    intervals         |-> 0,
    fullscreenElement |-> FALSE,
    startRequests     |-> 0,
    reRequests        |-> 0,
    exitRequests      |-> 0,
    timers            |-> 0,
    innerSize         |-> [width |-> 1920, height |-> 1080] ]

VARIABLES
  config,                \* this.config
  state,                 \* this.state
  violationCallbacks,    \* this.violationCallbacks
  terminationCallbacks,  \* this.terminationCallbacks
  listeners,             \* this.listeners: the events of the Map's entries
  windowSize,            \* this.windowSize
  devToolsCheckInterval, \* this.devToolsCheckInterval: NULL or a handle
  fullscreenElement,     \* this.fullscreenElement: NULL or an element
  browser,               \* document / window, as above
  calls,                 \* the observer invocations of the last handler
  attempts,              \* the recordViolation calls of the last handler
  snapshot,              \* the object the last getState() returned, as its
                         \* holder reads it now
  unsubscribers,         \* the functions onViolation and onTermination have
                         \* returned, in order, and whether each was called
  op                     \* the last handler

monitorVars ==
  << config, state, violationCallbacks, terminationCallbacks, listeners,
     windowSize, devToolsCheckInterval, fullscreenElement, browser, calls,
     attempts, snapshot, unsubscribers, op >>

VARIABLES
  detection,             \* the fields of ProctoringDetectionService and the
                         \* animation frames and inference calls it awaits
  results,               \* the results the last handler gave to onDetection
  thrown                 \* the error the last handler threw, or NULL

detectorVars == <<detection, results, thrown>>

\* The service as one value.
This ==
  [ config                |-> config,
    state                 |-> state,
    violationCallbacks    |-> violationCallbacks,
    terminationCallbacks  |-> terminationCallbacks,
    listeners             |-> listeners,
    windowSize            |-> windowSize,
    devToolsCheckInterval |-> devToolsCheckInterval,
    fullscreenElement     |-> fullscreenElement,
    browser               |-> browser,
    calls                 |-> << >>,
    attempts              |-> << >>,
    snapshot              |-> snapshot,
    unsubscribers         |-> unsubscribers ]

\* The snapshot as its holder reads it once the service is w: the fields
\* violations and violationCounts of the copy are the array and the object
\* of this.state for as long as the service has not replaced them.
Held(w) ==
  IF w.snapshot.shared
  THEN [w.snapshot EXCEPT !.state.violations = w.state.violations,
                          !.state.violationCounts = w.state.violationCounts]
  ELSE w.snapshot

\* The handler named name has run and the service is w.
Becomes(name, w) ==
  /\ op' = name
  /\ attempts' = w.attempts
  /\ config' = w.config
  /\ state' = w.state
  /\ violationCallbacks' = w.violationCallbacks
  /\ terminationCallbacks' = w.terminationCallbacks
  /\ listeners' = w.listeners
  /\ windowSize' = w.windowSize
  /\ devToolsCheckInterval' = w.devToolsCheckInterval
  /\ fullscreenElement' = w.fullscreenElement
  /\ browser' = w.browser
  /\ calls' = w.calls
  /\ snapshot' = Held(w)
  /\ unsubscribers' = w.unsubscribers
  /\ detection' = detection
  /\ results' = << >>
  /\ thrown' = NULL

(***************************************************************************)
(* services/BrowserProctoringService.ts                                    *)
(***************************************************************************)
\* { ...this.config, ...config }: the fields of the partial config replace
\* those of the current one (a shallow merge).
configure(w, partial) ==
  [w EXCEPT !.config =
     [k \in DOMAIN w.config |->
        IF k \in DOMAIN partial THEN partial[k] ELSE w.config[k]]]

\* The function an onViolation or onTermination call returns: a closure
\* over the callback it was given.
Unsubscriber(kind, callback) ==
  [kind |-> kind, cb |-> callback, called |-> FALSE]

\* filter(cb => cb !== callback)
Without(callbacks, callback) ==
  LET Other(cb) == cb # callback IN SelectSeq(callbacks, Other)

onViolation(w, callback) ==
  [w EXCEPT !.violationCallbacks = Append(@, callback),
            !.unsubscribers = Append(@, Unsubscriber("violation", callback))]

onTermination(w, callback) ==
  [w EXCEPT !.terminationCallbacks = Append(@, callback),
            !.unsubscribers = Append(@, Unsubscriber("termination", callback))]

\* The i-th returned function is called: the registry of its kind becomes
\* that registry without the entries that are its callback.
unsubscribe(w, i) ==
  LET u == w.unsubscribers[i]
  IN [w EXCEPT
        !.violationCallbacks =
           IF u.kind = "violation" THEN Without(@, u.cb) ELSE @,
        !.terminationCallbacks =
           IF u.kind = "termination" THEN Without(@, u.cb) ELSE @,
        !.unsubscribers[i].called = TRUE]

\* removeEventListener(event, listener) for each entry of the Map; the call
\* names no capture flag, so it removes a handler that was added without
\* one and leaves a capturing handler registered.
removeEventListeners(w) ==
  [w EXCEPT
     !.browser.listeners =
        [e \in EventNames |->
           IF e \in w.listeners /\ e \notin Capturing THEN @[e] - 1 ELSE @[e]],
     !.listeners = {}]

\* stopMonitoring without its first line.
stopMonitoringAgain(w) ==
  LET w1 == removeEventListeners([w EXCEPT !.state.isMonitoring = FALSE])
      w2 == IF w1.devToolsCheckInterval # NULL
            THEN [w1 EXCEPT !.browser.intervals = @ - 1,
                            !.devToolsCheckInterval = NULL]
            ELSE w1
  IN IF w2.browser.fullscreenElement
     THEN [w2 EXCEPT !.browser.exitRequests = @ + 1]
     ELSE w2

stopMonitoring(w) ==
  IF ~w.state.isMonitoring THEN w
  ELSE
    LET w1 == removeEventListeners([w EXCEPT !.state.isMonitoring = FALSE])
        w2 == IF w1.devToolsCheckInterval # NULL
              THEN [w1 EXCEPT !.browser.intervals = @ - 1,
                              !.devToolsCheckInterval = NULL]
              ELSE w1
    IN IF w2.browser.fullscreenElement
       THEN [w2 EXCEPT !.browser.exitRequests = @ + 1]
       ELSE w2

getViolationSeverity(type) ==
  CASE type = "DEV_TOOLS" -> "high"
    [] type \in {"FULLSCREEN_EXIT", "TAB_SWITCH"} -> "medium"
    [] OTHER -> "low"

\* updateWarningLevel with > for >=.
updateWarningLevelPast(w) ==
  LET totalViolations == w.state.totalViolations
      warningThresholds == w.config.warningThresholds
  IN [w EXCEPT !.state.warningLevel =
        IF totalViolations > warningThresholds.high THEN "high"
        ELSE IF totalViolations > warningThresholds.medium THEN "medium"
        ELSE IF totalViolations > warningThresholds.low THEN "low"
        ELSE "none"]

updateWarningLevel(w) ==
  LET totalViolations == w.state.totalViolations
      warningThresholds == w.config.warningThresholds
  IN [w EXCEPT !.state.warningLevel =
        IF totalViolations >= warningThresholds.high THEN "high"
        ELSE IF totalViolations >= warningThresholds.medium THEN "medium"
        ELSE IF totalViolations >= warningThresholds.low THEN "low"
        ELSE "none"]

\* shouldTerminate with a per-type count allowed to reach its threshold.
shouldTerminateAboveThreshold(w) ==
  IF ~w.config.autoTerminateOnMaxViolations THEN FALSE
  ELSE IF w.state.totalViolations >= w.config.maxViolations THEN TRUE
  ELSE \E type \in ViolationType :
         /\ w.state.violationCounts[type] > 0
         /\ w.config.violationThresholds[type] # 0
         /\ w.state.violationCounts[type] > w.config.violationThresholds[type]

\* shouldTerminate with > for >= in the check of the cap.
shouldTerminatePastCap(w) ==
  IF ~w.config.autoTerminateOnMaxViolations THEN FALSE
  ELSE IF w.state.totalViolations > w.config.maxViolations THEN TRUE
  ELSE \E type \in ViolationType :
         /\ w.state.violationCounts[type] > 0
         /\ w.config.violationThresholds[type] # 0
         /\ w.state.violationCounts[type] >= w.config.violationThresholds[type]

shouldTerminate(w) ==
  IF ~w.config.autoTerminateOnMaxViolations THEN FALSE
  ELSE IF w.state.totalViolations >= w.config.maxViolations THEN TRUE
  ELSE \E type \in ViolationType :
         /\ w.state.violationCounts[type] > 0   \* an entry of violationCounts
         /\ w.config.violationThresholds[type] # 0
         /\ w.state.violationCounts[type] >= w.config.violationThresholds[type]

\* An observer invocation: the callback, its argument (the violation, as a
\* one-element list, or the log) and this.state at the time of the call.
Call(kind, cb, arg, w) ==
  [kind |-> kind, cb |-> cb, arg |-> arg, state |-> w.state]

\* terminate without isTerminated = true.
terminateUnflagged(w) ==
  stopMonitoring(
    [w EXCEPT !.calls = @ \o
       [i \in 1..Len(w.terminationCallbacks) |->
          Call("termination", w.terminationCallbacks[i],
               w.state.violations, w)]])

terminate(w) ==
  LET w1 == [w EXCEPT !.state.isTerminated = TRUE]
      w2 == [w1 EXCEPT !.calls = @ \o
               [i \in 1..Len(w1.terminationCallbacks) |->
                  Call("termination", w1.terminationCallbacks[i],
                       w1.state.violations, w1)]]
  IN stopMonitoring(w2)

\* recordViolation past its first line, putting the violation at the head
\* of the log (unshift for push).
recordViolationAtHead(w, type) ==
  LET violation == [type |-> type, severity |-> getViolationSeverity(type)]
      w1 == [w EXCEPT !.state.violations = <<violation>> \o @,
                      !.state.violationCounts[type] = @ + 1,
                      !.state.totalViolations = @ + 1]
      w2 == updateWarningLevel(w1)
      w3 == [w2 EXCEPT !.calls = @ \o
               [i \in 1..Len(w2.violationCallbacks) |->
                  Call("violation", w2.violationCallbacks[i],
                       <<violation>>, w2)]]
  IN IF shouldTerminate(w3) THEN terminate(w3) ELSE w3

\* recordViolation past its first line, with the violation observers called
\* after the termination check.
recordViolationNotifyingLast(w, type) ==
  LET violation == [type |-> type, severity |-> getViolationSeverity(type)]
      w1 == [w EXCEPT !.state.violations = Append(@, violation),
                      !.state.violationCounts[type] = @ + 1,
                      !.state.totalViolations = @ + 1]
      w2 == updateWarningLevel(w1)
      w3 == IF shouldTerminate(w2) THEN terminate(w2) ELSE w2
  IN [w3 EXCEPT !.calls = @ \o
        [i \in 1..Len(w3.violationCallbacks) |->
           Call("violation", w3.violationCallbacks[i], <<violation>>, w3)]]

\* recordViolation past its first line: the violation is appended and
\* counted, the warning level updated, the violation observers called and
\* the termination check made.
recordViolationAccepted(w, type) ==
  LET violation == [type |-> type, severity |-> getViolationSeverity(type)]
      w1 == [w EXCEPT !.state.violations = Append(@, violation),
                      !.state.violationCounts[type] = @ + 1,
                      !.state.totalViolations = @ + 1]
      w2 == updateWarningLevel(w1)
      w3 == [w2 EXCEPT !.calls = @ \o
               [i \in 1..Len(w2.violationCallbacks) |->
                  Call("violation", w2.violationCallbacks[i],
                       <<violation>>, w2)]]
  IN IF shouldTerminate(w3) THEN terminate(w3) ELSE w3

\* recordViolation without its first line.
recordViolationUnguarded(w, type) ==
  recordViolationAccepted(
    [w EXCEPT !.attempts =
       Append(@, [type |-> type, ignored |-> w.state.isTerminated])],
    type)

\* Each call is noted in attempts, with whether the monitor was terminated.
recordViolation(w, type) ==
  LET w0 == [w EXCEPT !.attempts =
               Append(@, [type |-> type, ignored |-> w.state.isTerminated])]
  IN IF w.state.isTerminated THEN w0 ELSE recordViolationAccepted(w0, type)

\* clearViolations without violationCounts = {}.
clearViolationsKeepingCounts(w) ==
  [w EXCEPT !.state.violations = << >>,
            !.state.totalViolations = 0,
            !.state.warningLevel = "none",
            !.state.isTerminated = FALSE,
            !.snapshot.shared = FALSE]

\* clearViolations that stops monitoring too.
clearViolationsStopping(w) ==
  stopMonitoring(
    [w EXCEPT !.state.violations = << >>,
              !.state.violationCounts = [t \in ViolationType |-> 0],
              !.state.totalViolations = 0,
              !.state.warningLevel = "none",
              !.state.isTerminated = FALSE,
              !.snapshot.shared = FALSE])

\* getState: { ...this.state }, a copy of the fields of this.state; the
\* copy's violations and violationCounts are the service's own array and
\* object.
getState(w) ==
  [w EXCEPT !.snapshot = [taken |-> TRUE, shared |-> TRUE, state |-> w.state]]

\* clearViolations gives this.state a new array and a new object; a
\* snapshot keeps the old ones.
clearViolations(w) ==
  [w EXCEPT !.state.violations = << >>,
            !.state.violationCounts = [t \in ViolationType |-> 0],
            !.state.totalViolations = 0,
            !.state.warningLevel = "none",
            !.state.isTerminated = FALSE,
            !.snapshot.shared = FALSE]

\* The events setupEventListeners listens to under a configuration.
EnabledEvents(c) ==
  (IF c.enableTabSwitchDetection THEN {"visibilitychange"} ELSE {})
  \cup (IF c.enableWindowBlurDetection THEN {"blur"} ELSE {})
  \cup (IF c.enableRightClickPrevention THEN {"contextmenu"} ELSE {})
  \cup (IF c.enableDevToolsPrevention \/ c.enableCopyPastePrevention
        THEN {"keydown"} ELSE {})
  \cup (IF c.enableCopyPastePrevention THEN {"copy", "cut", "paste"} ELSE {})
  \cup (IF c.enableResizeDetection THEN {"resize"} ELSE {})
  \cup (IF c.enableFullscreen THEN {"fullscreenchange"} ELSE {})

\* Each enabled event gets a new handler (addEventListener) and the Map entry
\* of the event is set to it; a handler the Map held before stays registered
\* with the browser.  With dev-tools prevention a new interval poll starts
\* and its handle replaces the stored one.
setupEventListeners(w) ==
  LET events == EnabledEvents(w.config)
      w1 == [w EXCEPT
               !.browser.listeners =
                  [e \in EventNames |-> IF e \in events THEN @[e] + 1 ELSE @[e]],
               !.listeners = @ \cup events]
  IN IF w.config.enableDevToolsPrevention
     THEN [w1 EXCEPT !.browser.intervals = @ + 1,
                     !.devToolsCheckInterval = "handle"]
     ELSE w1

\* enterFullscreen once its fullscreen request has settled: granted,
\* isFullscreen is set; refused, the error is logged and nothing changes.
enterFullscreenSettled(w, granted) ==
  IF granted THEN [w EXCEPT !.state.isFullscreen = TRUE] ELSE w

\* startMonitoring after its await (or without one): the listeners are set
\* up and the window size is stored.
startMonitoringResumed(w, size) ==
  [setupEventListeners(w) EXCEPT !.windowSize = size]

\* startMonitoring that starts a fresh session (isTerminated = false).
startMonitoringFresh(w, size) ==
  IF w.state.isMonitoring THEN w
  ELSE
    LET w1 == [w EXCEPT !.state.isMonitoring = TRUE,
                        !.state.isTerminated = FALSE,
                        !.fullscreenElement = "element"]
    IN IF w1.config.enableFullscreen
       THEN [w1 EXCEPT !.browser.startRequests = @ + 1]
       ELSE startMonitoringResumed(w1, size)

\* startMonitoring up to its await: with fullscreen enabled the call
\* suspends on the fullscreen request of enterFullscreen.
startMonitoring(w, size) ==
  IF w.state.isMonitoring THEN w
  ELSE
    LET w1 == [w EXCEPT !.state.isMonitoring = TRUE,
                        !.fullscreenElement = "element"]
    IN IF w1.config.enableFullscreen
       THEN [w1 EXCEPT !.browser.startRequests = @ + 1]
       ELSE startMonitoringResumed(w1, size)

(***************************************************************************)
(* The handlers of setupEventListeners.                                    *)
(***************************************************************************)
handleVisibilityChange(w, hidden) ==
  IF hidden THEN recordViolation(w, "TAB_SWITCH") ELSE w

handleBlur(w, hasFocus) ==
  IF ~hasFocus THEN recordViolation(w, "WINDOW_BLUR") ELSE w

handleContextMenu(w) == recordViolation(w, "RIGHT_CLICK")

Shortcut(key, mods) == [key |-> key, mods |-> mods]
Ctrl == [ctrlKey |-> TRUE]
Meta == [metaKey |-> TRUE]
CtrlShift == [ctrlKey |-> TRUE, shiftKey |-> TRUE]
MetaAlt == [metaKey |-> TRUE, altKey |-> TRUE]
None == [x \in {} |-> TRUE]

\* The modifiers an entry leaves out are undefined: mods holds the others.
forbiddenShortcuts ==
  << Shortcut("F12", None),
     Shortcut("I", CtrlShift), Shortcut("I", MetaAlt),
     Shortcut("J", CtrlShift), Shortcut("J", MetaAlt),
     Shortcut("C", CtrlShift), Shortcut("C", MetaAlt),
     Shortcut("C", Ctrl), Shortcut("V", Ctrl), Shortcut("X", Ctrl),
     Shortcut("A", Ctrl),
     Shortcut("V", Meta), Shortcut("C", Meta), Shortcut("X", Meta),
     Shortcut("A", Meta),
     Shortcut("V", Meta),
     Shortcut("U", Ctrl), Shortcut("S", Ctrl), Shortcut("P", Ctrl),
     Shortcut("F", Ctrl), Shortcut("H", Ctrl), Shortcut("R", Ctrl),
     Shortcut("F5", None) >>

\* String.prototype.toUpperCase on the keys the model uses.
toUpperCase(key) ==
  CASE key = "a" -> "A" [] key = "c" -> "C" [] key = "f" -> "F"
    [] key = "h" -> "H" [] key = "i" -> "I" [] key = "j" -> "J"
    [] key = "p" -> "P" [] key = "r" -> "R" [] key = "s" -> "S"
    [] key = "u" -> "U" [] key = "v" -> "V" [] key = "x" -> "X"
    [] OTHER -> key

ShortcutMatches(s, e) ==
  /\ toUpperCase(s.key) = toUpperCase(e.key)
  /\ \A m \in DOMAIN s.mods : s.mods[m] = e[m]

\* s.shiftKey as a condition: undefined is falsy.
ShiftOf(s) == "shiftKey" \in DOMAIN s.mods /\ s.mods["shiftKey"]

handleKeyDown(w, e) ==
  LET found == {i \in DOMAIN forbiddenShortcuts :
                  ShortcutMatches(forbiddenShortcuts[i], e)}
  IN IF found = {} THEN w
     ELSE
       LET shortcut ==
             forbiddenShortcuts[CHOOSE i \in found : \A j \in found : i <= j]
           isDevTools ==
             /\ toUpperCase(shortcut.key) \in {"F12", "I", "J", "C"}
             /\ (ShiftOf(shortcut) \/ shortcut.key = "F12")
           isCopyPaste ==
             /\ toUpperCase(shortcut.key) \in {"C", "V", "X", "A"}
             /\ ~ShiftOf(shortcut)
       IN IF isDevTools /\ w.config.enableDevToolsPrevention
          THEN recordViolation(w, "DEV_TOOLS")
          ELSE IF isCopyPaste /\ w.config.enableCopyPastePrevention
          THEN recordViolation(w, "COPY_PASTE")
          ELSE recordViolation(w, "KEYBOARD_SHORTCUT")

handleClipboardEvent(w) == recordViolation(w, "COPY_PASTE")

Abs(x) == IF x < 0 THEN -x ELSE x

\* handleResize firing from 50 px on.
handleResizeFrom50(w, current) ==
  IF w.windowSize = NullSize THEN w
  ELSE
    LET wDiff == Abs(current.width - w.windowSize.width)
        hDiff == Abs(current.height - w.windowSize.height)
    IN IF wDiff >= 50 \/ hDiff >= 50
       THEN [recordViolation(w, "WINDOW_RESIZE") EXCEPT !.windowSize = current]
       ELSE w

\* handleResize comparing with the size at the start.
handleResizeFromStart(w, current) ==
  IF w.windowSize = NullSize THEN w
  ELSE
    LET wDiff == Abs(current.width - w.windowSize.width)
        hDiff == Abs(current.height - w.windowSize.height)
    IN IF wDiff > 50 \/ hDiff > 50
       THEN recordViolation(w, "WINDOW_RESIZE")
       ELSE w

handleResize(w, current) ==
  IF w.windowSize = NullSize THEN w
  ELSE
    LET wDiff == Abs(current.width - w.windowSize.width)
        hDiff == Abs(current.height - w.windowSize.height)
    IN IF wDiff > 50 \/ hDiff > 50
       THEN [recordViolation(w, "WINDOW_RESIZE") EXCEPT !.windowSize = current]
       ELSE w

\* isFullscreen follows the document; leaving fullscreen while monitoring is
\* a violation and starts the timer of the delayed re-request.
handleFullscreenChange(w) ==
  LET w1 == [w EXCEPT !.state.isFullscreen = w.browser.fullscreenElement]
  IN IF ~w1.state.isFullscreen /\ w1.state.isMonitoring
     THEN [recordViolation(w1, "FULLSCREEN_EXIT") EXCEPT !.browser.timers = @ + 1]
     ELSE w1

\* The callback of that timer: the re-request is made when still monitoring
\* and not fullscreen (enterFullscreen is not awaited).
reRequestTimeout(w) ==
  LET w1 == [w EXCEPT !.browser.timers = @ - 1]
  IN IF w1.state.isMonitoring /\ ~w1.browser.fullscreenElement
        /\ w1.fullscreenElement # NULL
     THEN [w1 EXCEPT !.browser.reRequests = @ + 1]
     ELSE w1

isDevToolsOpen(widthGap, heightGap) ==
  LET threshold == 160
      widthThreshold == widthGap > threshold
      heightThreshold == heightGap > threshold
      firefoxDetection == heightGap > 150
  IN widthThreshold \/ heightThreshold \/ firefoxDetection

\* The callback of the interval poll; the gaps are outer minus inner size.
devToolsCheck(w, widthGap, heightGap) ==
  IF isDevToolsOpen(widthGap, heightGap)
  THEN recordViolation(w, "DEV_TOOLS")
  ELSE w

\* The browser dispatches an event to the handlers registered for it, in
\* the order of their registration; a handler removed by an earlier one is
\* not run.  The handlers the Map no longer holds come first: the Map holds
\* the last one registered.  No handler removes a capturing one.
Dispatch(w, event, Handler(_)) ==
  LET n == w.browser.listeners[event]
      removable == event \in w.listeners /\ event \notin Capturing
      older == IF removable THEN n - 1 ELSE n
      run[i \in 0..older] == IF i = 0 THEN w ELSE Handler(run[i - 1])
      w1 == run[older]
  IN IF removable /\ event \in w1.listeners
     THEN Handler(w1)
     ELSE w1

(***************************************************************************)
(* The browser's side of fullscreen.                                       *)
(***************************************************************************)
\* The document changes its fullscreen element and fullscreenchange is
\* dispatched.
FullscreenBecomes(w, on) ==
  IF w.browser.fullscreenElement = on THEN w
  ELSE Dispatch([w EXCEPT !.browser.fullscreenElement = on],
                "fullscreenchange", handleFullscreenChange)

\* The fullscreen request of a suspended startMonitoring settles and the
\* call runs to its end.
startRequestSettled(w, granted, size) ==
  LET w0 == [w EXCEPT !.browser.startRequests = @ - 1]
      w1 == IF granted THEN FullscreenBecomes(w0, TRUE) ELSE w0
  IN startMonitoringResumed(enterFullscreenSettled(w1, granted), size)

\* The fullscreen request of a timer's enterFullscreen settles.
reRequestSettled(w, granted) ==
  LET w0 == [w EXCEPT !.browser.reRequests = @ - 1]
      w1 == IF granted THEN FullscreenBecomes(w0, TRUE) ELSE w0
  IN enterFullscreenSettled(w1, granted)

\* document.exitFullscreen() settles: the document leaves fullscreen, or
\* the request is rejected because it is not fullscreen (caught).
exitRequestSettled(w) ==
  FullscreenBecomes([w EXCEPT !.browser.exitRequests = @ - 1], FALSE)

(***************************************************************************)
(* hooks/useBrowserProctoring.ts: the effect run on mount.                 *)
(***************************************************************************)
mount(w, options) ==
  LET w1 == IF "config" \in DOMAIN options
            THEN configure(w, options.config) ELSE w
      w2 == IF "onViolation" \in DOMAIN options
            THEN onViolation(w1, options.onViolation) ELSE w1
  IN IF "onTermination" \in DOMAIN options
     THEN onTermination(w2, options.onTermination) ELSE w2

(***************************************************************************)
(* Inputs.                                                                 *)
(***************************************************************************)
Size(width, height) == [width |-> width, height |-> height]
Sizes == {Size(1920, 1080), Size(1800, 1080)}
\* With a size 50 px from the first on both axes.
ResizeSizes == Sizes \cup {Size(1870, 1030)}

\* The window has the size given (window.innerWidth, window.innerHeight).
Resized(w, size) == [w EXCEPT !.browser.innerSize = size]

KeyEvent(key, mods) ==
  [key |-> key,
   ctrlKey  |-> "ctrlKey" \in mods,
   shiftKey |-> "shiftKey" \in mods,
   altKey   |-> "altKey" \in mods,
   metaKey  |-> "metaKey" \in mods]
KeyEvents ==
  { KeyEvent("F12", {}), KeyEvent("c", {"ctrlKey"}), KeyEvent("u", {"ctrlKey"}),
    KeyEvent("a", {}) }

\* The key presses of the entries under "Developer Tools".
DevToolsKeyEvents ==
  { KeyEvent("F12", {}),
    KeyEvent("I", {"ctrlKey", "shiftKey"}), KeyEvent("i", {"metaKey", "altKey"}),
    KeyEvent("J", {"ctrlKey", "shiftKey"}), KeyEvent("j", {"metaKey", "altKey"}),
    KeyEvent("C", {"ctrlKey", "shiftKey"}), KeyEvent("c", {"metaKey", "altKey"}) }

\* Outer minus inner window size (width, height), in px: docked dev tools
\* widen a gap.
Gaps == {<<0, 0>>, <<200, 0>>, <<0, 155>>, <<0, 200>>}

\* The callback functions components subscribe.
Callbacks == {"cb1", "cb2"}

\* The options of pages/candidateflow/testInterface.tsx.
AppOptions ==
  [ config        |-> [ maxViolations |-> 10,
                        screenshotOnViolation |-> TRUE,
                        autoTerminateOnMaxViolations |-> TRUE ],
    onViolation   |-> "cb1",
    onTermination |-> "cb1" ]
\* A global cap alone, without fullscreen.
StrictOptions ==
  [ config        |-> [ enableFullscreen |-> FALSE,
                        maxViolations |-> 2,
                        violationThresholds |-> [t \in ViolationType |-> 0] ],
    onViolation   |-> "cb2",
    onTermination |-> "cb2" ]
\* No automatic termination, lower warning thresholds, fewer watchers.
LenientOptions ==
  [ config        |-> [ enableFullscreen |-> FALSE,
                        enableWindowBlurDetection |-> FALSE,
                        enableRightClickPrevention |-> FALSE,
                        enableCopyPastePrevention |-> FALSE,
                        enableResizeDetection |-> FALSE,
                        autoTerminateOnMaxViolations |-> FALSE,
                        warningThresholds |-> [low |-> 1, medium |-> 2, high |-> 3] ],
    onViolation   |-> "cb2",
    onTermination |-> "cb2" ]

(***************************************************************************)
(* What the environment does within the bounds.                            *)
(***************************************************************************)
NeverStarted ==
  /\ ~state.isMonitoring
  /\ windowSize = NullSize
  /\ browser.startRequests = 0

\* The page has mounted the hook.
Mounted == violationCallbacks # << >>

\* All the violations of a log are of one type.
SingleType(log) == \A i, j \in DOMAIN log : log[i].type = log[j].type

\* The handlers that run are those that leave the service within the bounds.
Bounded(w) ==
  /\ \/ w.state.violations = state.violations
     \/ Len(w.state.violations) <= MaxLog
     \/ SingleType(w.state.violations) /\ Len(w.state.violations) <= MaxRun
  /\ w.browser.startRequests <= MaxPending
  /\ w.browser.reRequests <= MaxPending
  /\ w.browser.exitRequests <= MaxPending
  /\ w.browser.timers <= MaxTimers
  /\ w.browser.intervals <= MaxHandlers
  /\ \A e \in EventNames : w.browser.listeners[e] <= MaxHandlers

Listening(event) == browser.listeners[event] > 0

(***************************************************************************)
(* Actions of the monitor.                                                 *)
(***************************************************************************)
\* A handler runs and leaves the service, w, within the bounds.
Handled(name, w) == Bounded(w) /\ Becomes(name, w)

\* The page mounts with the application's options; a second component may
\* mount the hook with other options before monitoring first starts.
Mount(options) ==
  /\ NeverStarted
  /\ IF options = AppOptions THEN ~Mounted ELSE Len(violationCallbacks) = 1
  /\ Handled("Mount", mount(This, options))

StartMonitoring(size) ==
  Mounted
  /\ Handled("StartMonitoring", startMonitoring(Resized(This, size), size))

StartRequestSettles(granted, size) ==
  /\ browser.startRequests > 0
  /\ Handled("StartRequestSettles",
             startRequestSettled(Resized(This, size), granted, size))

\* startMonitoring with nothing else running before its request settles.
StartMonitoringAwaited(granted, size) ==
  LET w1 == startMonitoring(Resized(This, size), size)
      w == IF w1.browser.startRequests > browser.startRequests
           THEN startRequestSettled(w1, granted, size)
           ELSE w1
  IN Mounted /\ Handled("StartMonitoringAwaited", w)

StopMonitoring == Mounted /\ Handled("StopMonitoring", stopMonitoring(This))

ExitRequestSettles ==
  /\ browser.exitRequests > 0
  /\ Handled("ExitRequestSettles", exitRequestSettled(This))

\* stopMonitoring with nothing else running before its exit request settles.
StopMonitoringSettled ==
  LET w1 == stopMonitoring(This)
      w == IF w1.browser.exitRequests > browser.exitRequests
           THEN exitRequestSettled(w1)
           ELSE w1
  IN Mounted /\ Handled("StopMonitoringSettled", w)

\* The user leaves fullscreen (Esc).
UserExitsFullscreen ==
  /\ browser.fullscreenElement
  /\ Handled("UserExitsFullscreen", FullscreenBecomes(This, FALSE))

ReRequestTimeout ==
  /\ browser.timers > 0
  /\ Handled("ReRequestTimeout", reRequestTimeout(This))

ReRequestSettles(granted) ==
  /\ browser.reRequests > 0
  /\ Handled("ReRequestSettles", reRequestSettled(This, granted))

\* The user leaves fullscreen and nothing else runs until the timer this
\* starts has fired and the request the timer makes has settled.
UserExitsFullscreenSettled(granted) ==
  /\ browser.fullscreenElement
  /\ LET w1 == FullscreenBecomes(This, FALSE)
         w2 == IF w1.browser.timers > browser.timers
               THEN reRequestTimeout(w1)
               ELSE w1
         w == IF w2.browser.reRequests > browser.reRequests
              THEN reRequestSettled(w2, granted)
              ELSE w2
     IN Handled("UserExitsFullscreenSettled", w)

VisibilityChange(hidden) ==
  /\ Listening("visibilitychange")
  /\ Handled("VisibilityChange",
             Dispatch(This, "visibilitychange",
                      LAMBDA w : handleVisibilityChange(w, hidden)))

Blur(hasFocus) ==
  /\ Listening("blur")
  /\ Handled("Blur", Dispatch(This, "blur", LAMBDA w : handleBlur(w, hasFocus)))

ContextMenu ==
  /\ Listening("contextmenu")
  /\ Handled("ContextMenu", Dispatch(This, "contextmenu", handleContextMenu))

KeyDown(e) ==
  /\ Listening("keydown")
  /\ Handled("KeyDown",
             Dispatch(This, "keydown", LAMBDA w : handleKeyDown(w, e)))

Clipboard(type) ==
  /\ Listening(type)
  /\ Handled("Clipboard", Dispatch(This, type, handleClipboardEvent))

Resize(current) ==
  /\ Listening("resize")
  /\ Handled("Resize",
             Dispatch(Resized(This, current), "resize",
                      LAMBDA w : handleResize(w, current)))

\* One of the running interval polls fires.
DevToolsPoll(widthGap, heightGap) ==
  /\ browser.intervals > 0
  /\ Handled("DevToolsPoll", devToolsCheck(This, widthGap, heightGap))

ClearViolations ==
  Mounted /\ Handled("ClearViolations", clearViolations(This))

\* A component subscribes a callback, and calls a function a subscription
\* returned.
OnViolation(callback) ==
  /\ Len(unsubscribers) < MaxSubscribers
  /\ Handled("OnViolation", onViolation(This, callback))

OnTermination(callback) ==
  /\ Len(unsubscribers) < MaxSubscribers
  /\ Handled("OnTermination", onTermination(This, callback))

Unsubscribe(i) == Handled("Unsubscribe", unsubscribe(This, i))

\* The page takes a snapshot and keeps it.
GetState == Mounted /\ Handled("GetState", getState(This))

(***************************************************************************)
(* Numbers.  A number of the code is a ratio n/d of integers in lowest     *)
(* terms with d > 0, or one of the values a division by zero gives:        *)
(* Infinity (1/0), -Infinity (-1/0) and NaN (0/0).  The arithmetic is that *)
(* of the code's operators on these values, exact on the finite ones.      *)
(***************************************************************************)
RECURSIVE GCD(_, _)
GCD(m, n) == IF n = 0 THEN m ELSE GCD(n, m % n)

Sign(i) == IF i > 0 THEN 1 ELSE IF i < 0 THEN -1 ELSE 0

\* n/d with d # 0, in lowest terms.
Ratio(n, d) ==
  LET an == IF n < 0 THEN -n ELSE n
      ad == IF d < 0 THEN -d ELSE d
      g == GCD(an, ad)
  IN [n |-> (Sign(n) * Sign(d) * an) \div g, d |-> ad \div g]

Infinity == [n |-> 1, d |-> 0]
NegInfinity == [n |-> -1, d |-> 0]
NaN == [n |-> 0, d |-> 0]
Zero == [n |-> 0, d |-> 1]

isNaN(x) == x.d = 0 /\ x.n = 0
isFinite(x) == x.d > 0

\* x + y
Plus(x, y) ==
  IF isNaN(x) \/ isNaN(y) THEN NaN
  ELSE IF ~isFinite(x) /\ ~isFinite(y) THEN (IF x.n = y.n THEN x ELSE NaN)
  ELSE IF ~isFinite(x) THEN x
  ELSE IF ~isFinite(y) THEN y
  ELSE Ratio(x.n * y.d + y.n * x.d, x.d * y.d)

Negated(x) == [n |-> -x.n, d |-> x.d]

\* x - y
Minus(x, y) == Plus(x, Negated(y))

\* x * y
Times(x, y) ==
  IF isNaN(x) \/ isNaN(y) THEN NaN
  ELSE IF ~isFinite(x) \/ ~isFinite(y)
       THEN (IF x.n = 0 \/ y.n = 0 THEN NaN
             ELSE IF Sign(x.n) * Sign(y.n) > 0 THEN Infinity ELSE NegInfinity)
  ELSE Ratio(x.n * y.n, x.d * y.d)

\* x / y, where a zero y is +0 (every divisor of the code is a Math.abs or
\* a constant).
Over(x, y) ==
  IF isNaN(x) \/ isNaN(y) THEN NaN
  ELSE IF ~isFinite(x) /\ ~isFinite(y) THEN NaN
  ELSE IF ~isFinite(y) THEN Zero
  ELSE IF ~isFinite(x)
       THEN (IF Sign(x.n) * Sign(y.n) >= 0 THEN Infinity ELSE NegInfinity)
  ELSE IF y.n = 0
       THEN (IF x.n = 0 THEN NaN ELSE IF x.n > 0 THEN Infinity ELSE NegInfinity)
  ELSE Ratio(x.n * y.d, x.d * y.n)

\* Math.abs(x)
MathAbs(x) == [n |-> IF x.n < 0 THEN -x.n ELSE x.n, d |-> x.d]

\* x < y and x > y: false when either is NaN.
LessThan(x, y) ==
  IF isNaN(x) \/ isNaN(y) THEN FALSE
  ELSE IF ~isFinite(x) /\ ~isFinite(y) THEN x.n < y.n
  ELSE IF ~isFinite(x) THEN x.n < 0
  ELSE IF ~isFinite(y) THEN y.n > 0
  ELSE x.n * y.d < y.n * x.d

GreaterThan(x, y) == LessThan(y, x)

\* Math.atan2(y, x) * 180 / Math.PI, on the vectors along an axis.
Atan2Degrees(y, x) ==
  CASE y.n = 0 /\ x.n >= 0 -> Zero
    [] y.n = 0 /\ x.n < 0 -> Ratio(180, 1)
    [] y.n > 0 /\ x.n = 0 -> Ratio(90, 1)
    [] y.n < 0 /\ x.n = 0 -> Ratio(-90, 1)

(***************************************************************************)
(* services/ProctoringDetectionService.ts                                  *)
(***************************************************************************)
\* The service after its constructor; detectionLoop 0 is null, frames are
\* the handles of the animation frames requested and not yet run or
\* cancelled, inferences the detectForVideo calls in flight.  isDetecting
\* is the state of that name of hooks/useProctoringDetection.ts.
InitialDetection ==
  [ faceLandmarker  |-> FALSE,
    calibrationData |-> [ centerH |-> Ratio(1, 2),
                          centerV |-> Ratio(1, 2),
                          baselineEyeOpening |-> Zero,
                          baselineHeadYaw |-> Zero,
                          isCalibrated |-> FALSE,
                          tolerance |-> [ h |-> Ratio(15, 100),
                                          v |-> Ratio(15, 100),
                                          eyeOpening |-> Ratio(25, 100),
                                          headYaw |-> Ratio(15, 1) ] ],
    config          |-> [ enableGazeDetection         |-> TRUE,
                          enableHeadMovement          |-> TRUE,
                          enableMultipleFaceDetection |-> TRUE,
                          enableEyeOpeningDetection   |-> TRUE,
                          warningThreshold            |-> 30,
                          cautionThreshold            |-> 15 ],
    cheatingCounter |-> 0,
    isInitialized   |-> FALSE,
    detectionLoop   |-> 0,
    frames          |-> {},
    inferences      |-> 0,
    isDetecting     |-> FALSE ]

\* The service at the start of a handler.
Analyzer ==
  [ f \in DOMAIN detection \cup {"results", "thrown"} |->
      IF f = "results" THEN << >>
      ELSE IF f = "thrown" THEN NULL
      ELSE detection[f] ]

\* The handler named name has run and the service is a.
DetectionBecomes(name, a) ==
  /\ op' = name
  /\ detection' = [f \in DOMAIN detection |-> a[f]]
  /\ results' = a.results
  /\ thrown' = a.thrown
  /\ calls' = << >>
  /\ attempts' = << >>
  /\ UNCHANGED <<config, state, violationCallbacks, terminationCallbacks,
                 listeners, windowSize, devToolsCheckInterval,
                 fullscreenElement, browser, snapshot, unsubscribers>>

\* initFaceLandmarker that marks the analyzer initialized although loading
\* failed.
initFaceLandmarkerAssumed(a, loaded) ==
  IF a.isInitialized THEN a
  ELSE IF loaded
       THEN [a EXCEPT !.faceLandmarker = TRUE, !.isInitialized = TRUE]
       ELSE [a EXCEPT !.isInitialized = TRUE, !.thrown = "Error"]

\* initFaceLandmarker: the model is loaded, or loading fails and the error
\* is thrown again.
initFaceLandmarker(a, loaded) ==
  IF a.isInitialized THEN a
  ELSE IF loaded
       THEN [a EXCEPT !.faceLandmarker = TRUE, !.isInitialized = TRUE]
       ELSE [a EXCEPT !.thrown = "Error"]

(***************************************************************************)
(* utils/detectionUtils.ts.  A landmark set is the array of the points of  *)
(* one face, as the function from the indices the code reads that are      *)
(* below the array's length to their points; landmarks[i] is undefined     *)
(* elsewhere and reading a field of it throws a TypeError.                 *)
(***************************************************************************)
LANDMARKS ==
  [ LEFT_EYE_OUTER |-> 33, LEFT_EYE_INNER |-> 133, LEFT_EYE_UPPER |-> 159,
    LEFT_EYE_LOWER |-> 145, LEFT_IRIS |-> <<468, 469, 470, 471>>,
    RIGHT_EYE_OUTER |-> 362, RIGHT_EYE_INNER |-> 263, RIGHT_EYE_UPPER |-> 386,
    RIGHT_EYE_LOWER |-> 374, RIGHT_IRIS |-> <<473, 474, 475, 476>>,
    NOSE_TIP |-> 1, CHIN |-> 152 ]

Range(seq) == {seq[i] : i \in DOMAIN seq}

\* The indices each function reads.
detectGazeReads ==
  Range(LANDMARKS.LEFT_IRIS) \cup Range(LANDMARKS.RIGHT_IRIS)
  \cup { LANDMARKS.LEFT_EYE_OUTER, LANDMARKS.LEFT_EYE_INNER,
         LANDMARKS.LEFT_EYE_UPPER, LANDMARKS.LEFT_EYE_LOWER,
         LANDMARKS.RIGHT_EYE_OUTER, LANDMARKS.RIGHT_EYE_INNER,
         LANDMARKS.RIGHT_EYE_UPPER, LANDMARKS.RIGHT_EYE_LOWER }
eyeOpeningReads ==
  { LANDMARKS.LEFT_EYE_LOWER, LANDMARKS.LEFT_EYE_UPPER,
    LANDMARKS.RIGHT_EYE_LOWER, LANDMARKS.RIGHT_EYE_UPPER }
detectHeadMovementReads ==
  { LANDMARKS.LEFT_EYE_OUTER, LANDMARKS.RIGHT_EYE_OUTER, LANDMARKS.NOSE_TIP }

\* The function reads a point the array does not have.
ThrowsTypeError(reads, landmarks) == ~(reads \subseteq DOMAIN landmarks)

RECURSIVE SumOf(_, _, _)
SumOf(landmarks, indices, coordinate) ==
  IF indices = << >> THEN Zero
  ELSE Plus(landmarks[Head(indices)][coordinate],
            SumOf(landmarks, Tail(indices), coordinate))

getCenter(landmarks, indices) ==
  [ x |-> Over(SumOf(landmarks, indices, "x"), Ratio(Len(indices), 1)),
    y |-> Over(SumOf(landmarks, indices, "y"), Ratio(Len(indices), 1)) ]

detectGaze(landmarks) ==
  LET leftIris == getCenter(landmarks, LANDMARKS.LEFT_IRIS)
      rightIris == getCenter(landmarks, LANDMARKS.RIGHT_IRIS)
      leftEyeOuter == landmarks[LANDMARKS.LEFT_EYE_OUTER]
      leftEyeInner == landmarks[LANDMARKS.LEFT_EYE_INNER]
      leftEyeUpper == landmarks[LANDMARKS.LEFT_EYE_UPPER]
      leftEyeLower == landmarks[LANDMARKS.LEFT_EYE_LOWER]
      rightEyeOuter == landmarks[LANDMARKS.RIGHT_EYE_OUTER]
      rightEyeInner == landmarks[LANDMARKS.RIGHT_EYE_INNER]
      rightEyeUpper == landmarks[LANDMARKS.RIGHT_EYE_UPPER]
      rightEyeLower == landmarks[LANDMARKS.RIGHT_EYE_LOWER]
      leftEyeWidth == MathAbs(Minus(leftEyeInner.x, leftEyeOuter.x))
      leftEyeHeight == MathAbs(Minus(leftEyeLower.y, leftEyeUpper.y))
      rightEyeWidth == MathAbs(Minus(rightEyeInner.x, rightEyeOuter.x))
      rightEyeHeight == MathAbs(Minus(rightEyeLower.y, rightEyeUpper.y))
      leftIrisH == Over(Minus(leftIris.x, leftEyeOuter.x), leftEyeWidth)
      rightIrisH == Over(Minus(rightIris.x, rightEyeOuter.x), rightEyeWidth)
      leftIrisV == Over(Minus(leftIris.y, leftEyeUpper.y), leftEyeHeight)
      rightIrisV == Over(Minus(rightIris.y, rightEyeUpper.y), rightEyeHeight)
  IN [ leftH |-> leftIrisH, rightH |-> rightIrisH,
       leftV |-> leftIrisV, rightV |-> rightIrisV,
       avgH |-> Over(Plus(leftIrisH, rightIrisH), Ratio(2, 1)),
       avgV |-> Over(Plus(leftIrisV, rightIrisV), Ratio(2, 1)) ]

\* The eye opening both detectUpGaze and calculateBaselineEyeOpening compute.
calculateBaselineEyeOpening(landmarks) ==
  LET leftEyeOpening ==
        MathAbs(Minus(landmarks[LANDMARKS.LEFT_EYE_LOWER].y,
                      landmarks[LANDMARKS.LEFT_EYE_UPPER].y))
      rightEyeOpening ==
        MathAbs(Minus(landmarks[LANDMARKS.RIGHT_EYE_LOWER].y,
                      landmarks[LANDMARKS.RIGHT_EYE_UPPER].y))
  IN Over(Plus(leftEyeOpening, rightEyeOpening), Ratio(2, 1))

detectUpGaze(landmarks, calibrationData) ==
  IF ~calibrationData.isCalibrated \/ calibrationData.baselineEyeOpening = Zero
  THEN FALSE
  ELSE
    LET currentEyeOpening == calculateBaselineEyeOpening(landmarks)
        openingRatio ==
          Over(currentEyeOpening, calibrationData.baselineEyeOpening)
    IN GreaterThan(openingRatio,
                   Plus(Ratio(1, 1), calibrationData.tolerance.eyeOpening))

detectHeadMovement(landmarks, calibrationData) ==
  LET leftEye == landmarks[LANDMARKS.LEFT_EYE_OUTER]
      rightEye == landmarks[LANDMARKS.RIGHT_EYE_OUTER]
      noseTip == landmarks[LANDMARKS.NOSE_TIP]
      eyeVectorX == Minus(rightEye.x, leftEye.x)
      eyeVectorY == Minus(rightEye.y, leftEye.y)
      eyeLineYaw == Atan2Degrees(eyeVectorY, eyeVectorX)
      eyeMidpointX == Over(Plus(leftEye.x, rightEye.x), Ratio(2, 1))
      noseOffset == Minus(noseTip.x, eyeMidpointX)
      faceWidth == MathAbs(Minus(rightEye.x, leftEye.x))
      normalizedNoseOffset == Over(noseOffset, faceWidth)
      noseBasedYaw == Times(normalizedNoseOffset, Ratio(45, 1))
      currentYaw == Over(Plus(eyeLineYaw, noseBasedYaw), Ratio(2, 1))
  IN IF ~calibrationData.isCalibrated
     THEN [isMoving |-> FALSE, direction |-> NULL, angle |-> currentYaw]
     ELSE
       LET yawDifference == Minus(currentYaw, calibrationData.baselineHeadYaw)
           isMoving == GreaterThan(MathAbs(yawDifference),
                                   calibrationData.tolerance.headYaw)
           direction == IF isMoving
                        THEN (IF LessThan(yawDifference, Zero)
                              THEN "LEFT" ELSE "RIGHT")
                        ELSE NULL
       IN [isMoving |-> isMoving, direction |-> direction, angle |-> currentYaw]

\* isGazeOutOfBounds with the per-axis tests before the diagonal ones.
isGazeOutOfBoundsByAxis(gaze, calibrationData) ==
  LET centerH == calibrationData.centerH
      centerV == calibrationData.centerV
      tolH == calibrationData.tolerance.h
      tolV == calibrationData.tolerance.v
      right == LessThan(gaze.avgH, Minus(centerH, tolH))
      left == GreaterThan(gaze.avgH, Plus(centerH, tolH))
      down == LessThan(gaze.avgV, Minus(centerV, tolV))
      up == GreaterThan(gaze.avgV, Plus(centerV, tolV))
      directions ==
        (IF right THEN <<"RIGHT">> ELSE IF left THEN <<"LEFT">> ELSE << >>)
        \o (IF down THEN <<"DOWN">> ELSE IF up THEN <<"UP">> ELSE << >>)
  IN [isOut |-> Len(directions) > 0, direction |-> directions]

isGazeOutOfBounds(gaze, calibrationData) ==
  LET centerH == calibrationData.centerH
      centerV == calibrationData.centerV
      tolH == calibrationData.tolerance.h
      tolV == calibrationData.tolerance.v
      right == LessThan(gaze.avgH, Minus(centerH, tolH))
      left == GreaterThan(gaze.avgH, Plus(centerH, tolH))
      down == LessThan(gaze.avgV, Minus(centerV, tolV))
      up == GreaterThan(gaze.avgV, Plus(centerV, tolV))
      directions ==
        IF right /\ down THEN <<"RIGHT-DOWN">>
        ELSE IF left /\ down THEN <<"LEFT-DOWN">>
        ELSE IF right /\ up THEN <<"RIGHT-UP">>
        ELSE IF left /\ up THEN <<"LEFT-UP">>
        ELSE (IF right THEN <<"RIGHT">> ELSE IF left THEN <<"LEFT">> ELSE << >>)
             \o (IF down THEN <<"DOWN">> ELSE IF up THEN <<"UP">> ELSE << >>)
  IN [isOut |-> Len(directions) > 0, direction |-> directions]

(***************************************************************************)
(* services/ProctoringDetectionService.ts, continued.                      *)
(***************************************************************************)
\* calibrate keeping a calibration already made.
calibrateOnce(a, landmarks) ==
  IF ThrowsTypeError(detectGazeReads \cup eyeOpeningReads
                       \cup detectHeadMovementReads, landmarks)
  THEN [a EXCEPT !.thrown = "TypeError"]
  ELSE IF a.calibrationData.isCalibrated THEN a
  ELSE
    LET gaze == detectGaze(landmarks)
        baselineEyeOpening == calculateBaselineEyeOpening(landmarks)
        headMovement == detectHeadMovement(landmarks, a.calibrationData)
    IN [a EXCEPT !.calibrationData =
          [ centerH |-> gaze.avgH,
            centerV |-> gaze.avgV,
            baselineEyeOpening |-> baselineEyeOpening,
            baselineHeadYaw |-> headMovement.angle,
            isCalibrated |-> TRUE,
            tolerance |-> a.calibrationData.tolerance ]]

\* calibrate: the baselines of one reference frame replace the stored
\* calibration; the tolerances are kept.  (timestamp and calibrationImage
\* are left out.)  A read of a point the array lacks throws before anything
\* is stored.
calibrate(a, landmarks) ==
  IF ThrowsTypeError(detectGazeReads \cup eyeOpeningReads
                       \cup detectHeadMovementReads, landmarks)
  THEN [a EXCEPT !.thrown = "TypeError"]
  ELSE
    LET gaze == detectGaze(landmarks)
        baselineEyeOpening == calculateBaselineEyeOpening(landmarks)
        headMovement == detectHeadMovement(landmarks, a.calibrationData)
    IN [a EXCEPT !.calibrationData =
          [ centerH |-> gaze.avgH,
            centerV |-> gaze.avgV,
            baselineEyeOpening |-> baselineEyeOpening,
            baselineHeadYaw |-> headMovement.angle,
            isCalibrated |-> TRUE,
            tolerance |-> a.calibrationData.tolerance ]]

\* detectMultipleFaces counting the faces that differ from one another.
detectMultipleFacesDistinct(faceLandmarks) ==
  LET distinct == {faceLandmarks[i] : i \in DOMAIN faceLandmarks}
  IN [multipleDetected |-> Cardinality(distinct) > 1,
      count |-> Cardinality(distinct)]

\* results.faceLandmarks?.length || 0
detectMultipleFaces(faceLandmarks) ==
  [multipleDetected |-> Len(faceLandmarks) > 1, count |-> Len(faceLandmarks)]

\* Math.min giving its first argument.
MinOfFirst(x, y) == x
Min(x, y) == IF x < y THEN x ELSE y
\* Math.max giving its first argument.
MaxOfFirst(x, y) == x
\* Math.max giving its second argument.
MaxOfSecond(x, y) == y
Max(x, y) == IF x > y THEN x ELSE y

\* `${count} people detected`, `Looking ${direction.join(' ')}` and
\* `Head turned ${direction}`.
PeopleDetected(count) ==
  CASE count = 2 -> "2 people detected"
    [] count = 3 -> "3 people detected"
Looking(direction) ==
  CASE direction = <<"RIGHT-DOWN">> -> "Looking RIGHT-DOWN"
    [] direction = <<"LEFT-DOWN">> -> "Looking LEFT-DOWN"
    [] direction = <<"RIGHT-UP">> -> "Looking RIGHT-UP"
    [] direction = <<"LEFT-UP">> -> "Looking LEFT-UP"
    [] direction = <<"RIGHT">> -> "Looking RIGHT"
    [] direction = <<"LEFT">> -> "Looking LEFT"
    [] direction = <<"DOWN">> -> "Looking DOWN"
    [] direction = <<"UP">> -> "Looking UP"
    [] direction = <<"RIGHT", "DOWN">> -> "Looking RIGHT DOWN"
    [] direction = <<"RIGHT", "UP">> -> "Looking RIGHT UP"
    [] direction = <<"LEFT", "DOWN">> -> "Looking LEFT DOWN"
    [] direction = <<"LEFT", "UP">> -> "Looking LEFT UP"
HeadTurnedTo(direction) ==
  IF direction = "LEFT" THEN "Head turned LEFT" ELSE "Head turned RIGHT"

\* The zero-face return of processDetectionResults, decaying the counter
\* as a clean frame does.
NoFaceDetectedDecaying(a, multipleFaces) ==
  [a EXCEPT !.cheatingCounter = Max(@ - 3, 0),
            !.results =
               Append(@, [gaze |-> [leftH |-> Zero, rightH |-> Zero,
                                    leftV |-> Zero, rightV |-> Zero,
                                    avgH |-> Zero, avgV |-> Zero],
                          headMovement |-> [isMoving |-> FALSE,
                                            direction |-> NULL,
                                            angle |-> Zero],
                          multipleFaces |-> multipleFaces,
                          isLookingUp |-> FALSE,
                          warnings |-> <<"No face detected">>,
                          warningLevel |-> "warning"])]

\* The zero-face return of processDetectionResults.
NoFaceDetected(a, multipleFaces) ==
  [a EXCEPT !.results =
     Append(@, [gaze |-> [leftH |-> Zero, rightH |-> Zero,
                          leftV |-> Zero, rightV |-> Zero,
                          avgH |-> Zero, avgV |-> Zero],
                headMovement |-> [isMoving |-> FALSE,
                                  direction |-> NULL,
                                  angle |-> Zero],
                multipleFaces |-> multipleFaces,
                isLookingUp |-> FALSE,
                warnings |-> <<"No face detected">>,
                warningLevel |-> "warning"])]

\* The warning level of processDetectionResults, reached at a threshold
\* instead of above it.
warningLevelFrom(a, cheatingCounter) ==
  IF cheatingCounter >= a.config.warningThreshold THEN "warning"
  ELSE IF cheatingCounter >= a.config.cautionThreshold THEN "caution"
  ELSE "ok"

\* The warning level processDetectionResults determines from the updated
\* counter.
warningLevel(a, cheatingCounter) ==
  IF cheatingCounter > a.config.warningThreshold THEN "warning"
  ELSE IF cheatingCounter > a.config.cautionThreshold THEN "caution"
  ELSE "ok"

\* processDetectionResults on the landmark sets of a frame's faces: the
\* service after the frame, with the result it returns in a.results.
processDetectionResults(a, faceLandmarks) ==
  LET multipleFaces == detectMultipleFaces(faceLandmarks)
      people == IF a.config.enableMultipleFaceDetection
                   /\ multipleFaces.multipleDetected
                THEN <<PeopleDetected(multipleFaces.count)>> ELSE << >>
  IN IF Len(faceLandmarks) = 0
     THEN NoFaceDetected(a, multipleFaces)
     ELSE
       LET landmarks == faceLandmarks[1]
           gaze == detectGaze(landmarks)
           gazeCheck == isGazeOutOfBounds(gaze, a.calibrationData)
           looking == IF a.config.enableGazeDetection
                         /\ a.calibrationData.isCalibrated
                         /\ gazeCheck.isOut
                      THEN <<Looking(gazeCheck.direction)>> ELSE << >>
           headMovement == detectHeadMovement(landmarks, a.calibrationData)
           turned == IF a.config.enableHeadMovement /\ headMovement.isMoving
                     THEN <<HeadTurnedTo(headMovement.direction)>> ELSE << >>
           isLookingUp == IF a.config.enableEyeOpeningDetection
                          THEN detectUpGaze(landmarks, a.calibrationData)
                          ELSE FALSE
           up == IF isLookingUp THEN <<"Looking UP (eyelid)">> ELSE << >>
           warnings == people \o looking \o turned \o up
           cheatingCounter ==
             IF Len(warnings) > 0
             THEN Min(a.cheatingCounter + 2, 60)
             ELSE Max(a.cheatingCounter - 3, 0)
       IN [a EXCEPT !.cheatingCounter = cheatingCounter,
                    !.results =
                       Append(@, [gaze |-> gaze,
                                  headMovement |-> headMovement,
                                  multipleFaces |-> multipleFaces,
                                  isLookingUp |-> isLookingUp,
                                  warnings |-> warnings,
                                  warningLevel |->
                                    warningLevel(a, cheatingCounter)])]

\* this.detectionLoop = requestAnimationFrame(detect): the browser gives a
\* handle that no pending frame has and that the service does not hold.
requestAnimationFrame(a) ==
  LET handle == CHOOSE h \in 1..(Cardinality(a.frames) + 2) :
                  h \notin a.frames /\ h # a.detectionLoop
  IN [a EXCEPT !.frames = @ \cup {handle}, !.detectionLoop = handle]

stopDetection(a) ==
  LET a1 == IF a.detectionLoop # 0
            THEN [a EXCEPT !.frames = @ \ {a.detectionLoop},
                           !.detectionLoop = 0]
            ELSE a
  IN [a1 EXCEPT !.cheatingCounter = 0]

startDetectionLoop(a) ==
  requestAnimationFrame(IF a.detectionLoop # 0 THEN stopDetection(a) ELSE a)

\* hooks/useProctoringDetection.ts: startDetection and stopDetection.
startDetection(a) ==
  IF ~a.isInitialized THEN a
  ELSE [startDetectionLoop(a) EXCEPT !.isDetecting = TRUE]

stopDetectionOfHook(a) == [stopDetection(a) EXCEPT !.isDetecting = FALSE]

\* detect, the callback of an animation frame, up to its await: the video
\* shows the frame of the last run (another frame is requested), or
\* detectFromVideo has nothing to run on and gives null, or detectForVideo
\* is called.
detect(a, handle, newFrame, ready) ==
  LET a1 == [a EXCEPT !.frames = @ \ {handle}]
  IN IF ~newFrame THEN requestAnimationFrame(a1)
     ELSE IF ~a1.faceLandmarker \/ ~ready THEN requestAnimationFrame(a1)
     ELSE [a1 EXCEPT !.inferences = @ + 1]

\* detect resumed, giving up the loop when the inference has failed.
detectResumedOrHalted(a, failed, faceLandmarks) ==
  LET a1 == [a EXCEPT !.inferences = @ - 1]
      caught == /\ Len(faceLandmarks) > 0
                /\ ThrowsTypeError(detectGazeReads \cup eyeOpeningReads
                                     \cup detectHeadMovementReads,
                                   faceLandmarks[1])
  IN IF failed \/ caught THEN a1
     ELSE requestAnimationFrame(processDetectionResults(a1, faceLandmarks))

\* detect resumed: detectForVideo gave the landmarks of a frame, or failed
\* (detectFromVideo catches the error and gives null).
detectResumed(a, failed, faceLandmarks) ==
  LET a1 == [a EXCEPT !.inferences = @ - 1]
      caught == /\ Len(faceLandmarks) > 0
                /\ ThrowsTypeError(detectGazeReads \cup eyeOpeningReads
                                     \cup detectHeadMovementReads,
                                   faceLandmarks[1])
      a2 == IF failed \/ caught THEN a1
            ELSE processDetectionResults(a1, faceLandmarks)
  IN requestAnimationFrame(a2)

\* The landmark sets of the model, in hundredths of the image: the eyes
\* are 10 wide, the iris of each eye is gazeX right of the outer corner and
\* gazeY below the upper lid, the lids are opening apart and the nose is
\* noseOffset right of the middle of the eyes.
Point(x, y) == [x |-> Ratio(x, 100), y |-> Ratio(y, 100)]

Iris(first, x, y) ==
  [ i \in first..(first + 3) |->
      CASE i = first -> Point(x - 1, y)
        [] i = first + 1 -> Point(x, y - 1)
        [] i = first + 2 -> Point(x + 1, y)
        [] i = first + 3 -> Point(x, y + 1) ]

Face(gazeX, gazeY, opening, noseOffset) ==
  LET leftIris == Iris(468, 30 + gazeX, 38 + gazeY)
      rightIris == Iris(473, 60 + gazeX, 38 + gazeY)
  IN [ i \in detectGazeReads \cup detectHeadMovementReads |->
         CASE i = LANDMARKS.LEFT_EYE_OUTER -> Point(30, 40)
           [] i = LANDMARKS.LEFT_EYE_INNER -> Point(40, 40)
           [] i = LANDMARKS.LEFT_EYE_UPPER -> Point(35, 38)
           [] i = LANDMARKS.LEFT_EYE_LOWER -> Point(35, 38 + opening)
           [] i = LANDMARKS.RIGHT_EYE_OUTER -> Point(60, 40)
           [] i = LANDMARKS.RIGHT_EYE_INNER -> Point(70, 40)
           [] i = LANDMARKS.RIGHT_EYE_UPPER -> Point(65, 38)
           [] i = LANDMARKS.RIGHT_EYE_LOWER -> Point(65, 38 + opening)
           [] i = LANDMARKS.NOSE_TIP -> Point(45 + noseOffset, 55)
           [] i \in DOMAIN leftIris -> leftIris[i]
           [] i \in DOMAIN rightIris -> rightIris[i] ]

\* The first length points of an array of landmarks.
Slice(landmarks, length) ==
  [i \in {j \in DOMAIN landmarks : j < length} |-> landmarks[i]]

Centered == Face(5, 2, 4, 0)
LookingRight == Face(2, 2, 4, 0)
LookingLeftUp == Face(8, 3, 4, 0)
Turned == Face(5, 2, 4, 30)
WideEyed == Face(5, 3, 6, 0)
\* Every point of the face at one place.
Degenerate == [i \in DOMAIN Centered |-> Point(50, 50)]
\* An array without the iris points, and one without any point.
TooShort == Slice(Centered, 468)
Empty == Slice(Centered, 0)

\* The frames of the model: the landmark sets of the faces found.
NoFace == << >>
Clean == <<Centered>>
GazeAway == <<LookingRight>>
GazeDiagonal == <<LookingLeftUp>>
HeadTurned == <<Turned>>
EyesWide == <<WideEyed>>
Collapsed == <<Degenerate>>
TwoFaces == <<Centered, Turned>>
Frames ==
  {NoFace, Clean, GazeAway, GazeDiagonal, HeadTurned, EyesWide, Collapsed,
   TwoFaces}

DetectionBounded(a) ==
  /\ Cardinality(a.frames) + a.inferences <= MaxLoops
  /\ a.cheatingCounter <= MaxSuspicion

(***************************************************************************)
(* Actions of the analyzer.                                                *)
(***************************************************************************)
Detected(name, a) == DetectionBounded(a) /\ DetectionBecomes(name, a)

InitFaceLandmarker(loaded) ==
  Detected("InitFaceLandmarker", initFaceLandmarker(Analyzer, loaded))

\* A handler of the analyzer running alone, where the counter needs no
\* bound but its own.
Analyzed(name, a) ==
  /\ DetectionBecomes(name, a)
  /\ Cardinality(a.frames) + a.inferences <= MaxLoops

Calibrate(landmarks) ==
  /\ detection.isInitialized
  /\ Analyzed("Calibrate", calibrate(Analyzer, landmarks))

StartDetection == Detected("StartDetection", startDetection(Analyzer))

AnimationFrame(handle, newFrame, ready) ==
  /\ handle \in detection.frames
  /\ Detected("AnimationFrame", detect(Analyzer, handle, newFrame, ready))

\* The detectForVideo call of a suspended detect settles: it gives the
\* landmarks of the frame's faces, or fails.
InferenceSettles(failed, frame) ==
  /\ detection.inferences > 0
  /\ Detected(IF failed THEN "InferenceFails" ELSE "InferenceSettles",
              detectResumed(Analyzer, failed, frame))

\* An animation frame runs detect on a new video frame and the inference
\* settles with the landmarks of the frame's faces before anything else
\* happens.
FrameProcessed(handle, faceLandmarks) ==
  /\ handle \in detection.frames
  /\ detection.faceLandmarker
  /\ Analyzed("FrameProcessed",
              detectResumed(detect(Analyzer, handle, TRUE, TRUE), FALSE,
                            faceLandmarks))

StopDetection == Detected("StopDetection", stopDetectionOfHook(Analyzer))

MonitorInit ==
  /\ config = DEFAULT_CONFIG
  /\ state = InitialState
  /\ violationCallbacks = << >>
  /\ terminationCallbacks = << >>
  /\ listeners = {}
  /\ windowSize = NullSize
  /\ devToolsCheckInterval = NULL
  /\ fullscreenElement = NULL
  /\ browser = InitialBrowser
  /\ calls = << >>
  /\ attempts = << >>
  /\ snapshot = NoSnapshot
  /\ unsubscribers = << >>
  /\ op = "constructor"

(***************************************************************************)
(* Spec: the monitor driven by a page that awaits startMonitoring, with    *)
(* every watcher.                                                          *)
(***************************************************************************)
DetectionInit ==
  /\ detection = InitialDetection
  /\ results = << >>
  /\ thrown = NULL

vars == <<monitorVars, detectorVars>>

Init == MonitorInit /\ DetectionInit

Next ==
  \/ \E options \in {AppOptions, StrictOptions, LenientOptions} : Mount(options)
  \/ \E granted \in BOOLEAN : StartMonitoringAwaited(granted, browser.innerSize)
  \/ StopMonitoringSettled
  \/ \E granted \in BOOLEAN : UserExitsFullscreenSettled(granted)
  \/ \E hidden \in BOOLEAN : VisibilityChange(hidden)
  \/ \E hasFocus \in BOOLEAN : Blur(hasFocus)
  \/ ContextMenu
  \/ \E e \in KeyEvents : KeyDown(e)
  \/ \E type \in {"copy", "cut", "paste"} : Clipboard(type)
  \/ \E current \in Sizes : Resize(current)
  \/ \E gap \in Gaps : DevToolsPoll(gap[1], gap[2])
  \/ ClearViolations

Spec == Init /\ [][Next]_vars

(***************************************************************************)
(* SpecLifecycle: the monitor with the application's options, driven by a  *)
(* page that does not await: startMonitoring, stopMonitoring, timers and   *)
(* the browser's fullscreen requests interleave.                           *)
(***************************************************************************)
NextLifecycle ==
  \/ \E options \in {AppOptions} : Mount(options)
  \/ \E size \in {Size(1920, 1080)} : StartMonitoring(size)
  \/ \E granted \in BOOLEAN, size \in {Size(1920, 1080)} :
       StartRequestSettles(granted, size)
  \/ StopMonitoring
  \/ ExitRequestSettles
  \/ UserExitsFullscreen
  \/ ReRequestTimeout
  \/ \E granted \in BOOLEAN : ReRequestSettles(granted)
  \/ \E hidden \in BOOLEAN : VisibilityChange(hidden)
  \/ \E gap \in {<<0, 0>>, <<200, 0>>} : DevToolsPoll(gap[1], gap[2])
  \/ ClearViolations

SpecLifecycle == Init /\ [][NextLifecycle]_vars

(***************************************************************************)
(* SpecStop: the monitor and the analyzer side by side, each started and   *)
(* stopped at any time.                                                    *)
(***************************************************************************)
NextStop ==
  \/ \E options \in {AppOptions} : Mount(options)
  \/ \E granted \in BOOLEAN, size \in {Size(1920, 1080)} :
       StartMonitoringAwaited(granted, size)
  \/ StopMonitoring
  \/ ExitRequestSettles
  \/ \E gap \in {<<0, 0>>, <<200, 0>>} : DevToolsPoll(gap[1], gap[2])
  \/ \E loaded \in BOOLEAN : InitFaceLandmarker(loaded)
  \/ StartDetection
  \/ \E handle \in detection.frames, newFrame, ready \in BOOLEAN :
       AnimationFrame(handle, newFrame, ready)
  \/ \E failed \in BOOLEAN, frame \in {Clean, TwoFaces} :
       InferenceSettles(failed, frame)
  \/ StopDetection

SpecStop == Init /\ [][NextStop]_vars

(***************************************************************************)
(* SpecLoop: the detection loop of an analyzer that is not stopped.        *)
(* Loading the model may fail.  The browser runs every animation frame it  *)
(* was asked for, the video has a new frame again and again, and           *)
(* inference succeeds again and again.                                     *)
(***************************************************************************)
NextLoop ==
  \/ \E loaded \in BOOLEAN : InitFaceLandmarker(loaded)
  \/ StartDetection
  \/ \E handle \in detection.frames, newFrame, ready \in BOOLEAN :
       AnimationFrame(handle, newFrame, ready)
  \/ \E failed \in BOOLEAN, frame \in {Clean, TwoFaces, NoFace} :
       InferenceSettles(failed, frame)

FrameRuns ==
  \E handle \in detection.frames : AnimationFrame(handle, TRUE, TRUE)

InferenceSucceeds == \E frame \in {Clean, NoFace} : InferenceSettles(FALSE, frame)

SpecLoop ==
  /\ Init
  /\ [][NextLoop]_vars
  /\ WF_vars(FrameRuns)
  /\ SF_vars(InferenceSucceeds)

(***************************************************************************)
(* SpecCap: the monitor under the default configuration with three kinds   *)
(* of signal, its log followed as far as the code lets it grow (the cap of *)
(* 10 stops it).                                                           *)
(***************************************************************************)
ContextMenuToCap ==
  /\ Listening("contextmenu")
  /\ Becomes("ContextMenu", Dispatch(This, "contextmenu", handleContextMenu))

ClipboardToCap ==
  /\ Listening("copy")
  /\ Becomes("Clipboard", Dispatch(This, "copy", handleClipboardEvent))

VisibilityChangeToCap ==
  /\ Listening("visibilitychange")
  /\ Becomes("VisibilityChange",
             Dispatch(This, "visibilitychange",
                      LAMBDA w : handleVisibilityChange(w, TRUE)))

NextCap ==
  \/ Mount(AppOptions)
  \/ \E granted \in BOOLEAN : StartMonitoringAwaited(granted, browser.innerSize)
  \/ ContextMenuToCap
  \/ ClipboardToCap
  \/ VisibilityChangeToCap
  \/ ClearViolations

SpecCap == Init /\ [][NextCap]_vars

(***************************************************************************)
(* SpecSnapshot: a page that holds the object getState() returned while    *)
(* the monitor goes on recording.                                          *)
(***************************************************************************)
NextSnapshot ==
  \/ Mount(AppOptions)
  \/ \E granted \in BOOLEAN : StartMonitoringAwaited(granted, browser.innerSize)
  \/ StopMonitoringSettled
  \/ ContextMenu
  \/ \E hidden \in BOOLEAN : VisibilityChange(hidden)
  \/ GetState
  \/ ClearViolations

SpecSnapshot == Init /\ [][NextSnapshot]_vars

(***************************************************************************)
(* SpecSubscribe: components subscribe and unsubscribe observers while the *)
(* monitor records right clicks, up to the termination at the fifth.       *)
(***************************************************************************)
NextSubscribe ==
  \/ \E callback \in Callbacks : OnViolation(callback)
  \/ \E callback \in Callbacks : OnTermination(callback)
  \/ \E i \in DOMAIN unsubscribers : Unsubscribe(i)
  \/ \E granted \in BOOLEAN : StartMonitoringAwaited(granted, browser.innerSize)
  \/ ContextMenu

SpecSubscribe == Init /\ [][NextSubscribe]_vars

(***************************************************************************)
(* SpecKeys: the candidate presses the shortcuts that open the developer   *)
(* tools; the page clears the log after a termination and starts again.    *)
(***************************************************************************)
NextKeys ==
  \/ Mount(AppOptions)
  \/ \E granted \in BOOLEAN : StartMonitoringAwaited(granted, browser.innerSize)
  \/ \E e \in DevToolsKeyEvents : KeyDown(e)
  \/ ClearViolations

SpecKeys == Init /\ [][NextKeys]_vars

(***************************************************************************)
(* SpecResize: the monitor with the application's options under resize     *)
(* events, its start suspended at the fullscreen request.                  *)
(***************************************************************************)
NextResize ==
  \/ \E options \in {AppOptions} : Mount(options)
  \/ StartMonitoring(browser.innerSize)
  \/ \E granted \in BOOLEAN : StartRequestSettles(granted, browser.innerSize)
  \/ StopMonitoring
  \/ ExitRequestSettles
  \/ \E current \in ResizeSizes : Resize(current)
  \/ ClearViolations

SpecResize == Init /\ [][NextResize]_vars

(***************************************************************************)
(* SpecFrames: the analyzer alone, each frame processed as one step, the   *)
(* counter running over its whole range.                                   *)
(***************************************************************************)
NextFrames ==
  \/ InitFaceLandmarker(TRUE)
  \/ \E landmarks \in {Centered, Degenerate} : Calibrate(landmarks)
  \/ StartDetection
  \/ \E handle \in 1..(MaxLoops + 2), faceLandmarks \in Frames :
       FrameProcessed(handle, faceLandmarks)
  \/ StopDetection

SpecFrames == Init /\ [][NextFrames]_vars

(***************************************************************************)
(* SpecCalibration: the analyzer alone under every calibration input, the  *)
(* counter kept low.                                                       *)
(***************************************************************************)
CalibrationInputs ==
  {Centered, LookingRight, LookingLeftUp, Turned, WideEyed, Degenerate,
   TooShort, Empty}

NextCalibration ==
  \/ InitFaceLandmarker(TRUE)
  \/ \E landmarks \in CalibrationInputs : Calibrate(landmarks)
  \/ StartDetection
  \/ \E handle \in 1..(MaxLoops + 2), faceLandmarks \in Frames :
       /\ FrameProcessed(handle, faceLandmarks)
       /\ detection'.cheatingCounter <= MaxSuspicion
  \/ StopDetection

SpecCalibration == Init /\ [][NextCalibration]_vars

(***************************************************************************)
(* Properties of the monitor.                                              *)
(***************************************************************************)
RECURSIVE SumOver(_, _)
SumOver(f, S) ==
  IF S = {} THEN 0
  ELSE LET x == CHOOSE y \in S : TRUE IN f[x] + SumOver(f, S \ {x})

\* The callbacks of the invocations of one kind, in the order of the calls.
Callees(cs, kind) ==
  LET IsKind(c) == c.kind = kind
      sel == SelectSeq(cs, IsKind)
  IN [i \in 1..Len(sel) |-> sel[i].cb]

\* C1: once isTerminated is true, a handler that calls recordViolation
\* leaves the log, the per-type counts, totalViolations and warningLevel as
\* they were and invokes no violation observer and no termination observer.
C1_RecordIsNoOpOnceTerminated ==
  [][ (state.isTerminated /\ attempts' # << >>) =>
        /\ state'.violations = state.violations
        /\ state'.violationCounts = state.violationCounts
        /\ state'.totalViolations = state.totalViolations
        /\ state'.warningLevel = state.warningLevel
        /\ calls' = << >> ]_vars

\* A watcher has called recordViolation on a terminated monitor that has
\* observers of both kinds.
C1_Witness ==
  /\ state.isTerminated
  /\ \E i \in DOMAIN attempts : attempts[i].ignored
  /\ violationCallbacks # << >> /\ terminationCallbacks # << >>

\* C2: the termination observers are invoked, each once and in the order
\* of registration, by the handler that terminates the monitor (isTerminated
\* goes from false to true), and by no other handler: none while the monitor
\* stays terminated, until clearViolations.
C2_TerminationObserversOncePerTermination ==
  [][ Callees(calls', "termination") =
        IF ~state.isTerminated /\ state'.isTerminated
        THEN terminationCallbacks
        ELSE << >> ]_vars

\* A handler has just terminated the monitor and called two observers.
C2_Witness ==
  /\ state.isTerminated
  /\ Len(terminationCallbacks) = 2
  /\ Callees(calls, "termination") = terminationCallbacks

\* C3: totalViolations is the sum of the per-type counts.
C3_TotalIsSumOfCounts ==
  state.totalViolations = SumOver(state.violationCounts, ViolationType)

\* Two violations of two types have been counted, reaching the medium level.
C3_Witness ==
  /\ state.totalViolations = 2
  /\ Cardinality({t \in ViolationType : state.violationCounts[t] > 0}) = 2
  /\ state.warningLevel = "medium"

\* The condition of termination, by the configuration: the cap is reached,
\* or the count of a type has reached the threshold configured for the type.
CapOrThresholdReached(st, c) ==
  \/ st.totalViolations >= c.maxViolations
  \/ \E t \in ViolationType :
       /\ c.violationThresholds[t] # 0
       /\ st.violationCounts[t] >= c.violationThresholds[t]

\* A handler has recorded a violation (recordViolation ran on a monitor that
\* was not terminated).
Recorded(as) == \E i \in DOMAIN as : ~as[i].ignored

\* C4: with automatic termination enabled, after a handler has recorded a
\* violation isTerminated is true if and only if totalViolations has reached
\* the cap or some per-type count its threshold.
C4_TerminatedIffCapOrThreshold ==
  [][ (Recorded(attempts') /\ config.autoTerminateOnMaxViolations) =>
        (state'.isTerminated <=> CapOrThresholdReached(state', config)) ]_vars

\* A violation has been recorded that reached the cap, below every per-type
\* threshold.
C4_Witness ==
  /\ Recorded(attempts)
  /\ state.isTerminated
  /\ state.totalViolations = config.maxViolations
  /\ \A t \in ViolationType :
       \/ config.violationThresholds[t] = 0
       \/ state.violationCounts[t] < config.violationThresholds[t]

\* The default per-type thresholds and the warning level of a total under
\* the default warning thresholds {low: 2, medium: 5, high: 8}.
TaxonomyThreshold ==
  [ TAB_SWITCH |-> 3, WINDOW_BLUR |-> 3, FULLSCREEN_EXIT |-> 2,
    RIGHT_CLICK |-> 5, DEV_TOOLS |-> 1, COPY_PASTE |-> 5,
    WINDOW_RESIZE |-> 3, KEYBOARD_SHORTCUT |-> 3 ]
DefaultLevel(total) ==
  IF total >= 8 THEN "high" ELSE IF total >= 5 THEN "medium"
  ELSE IF total >= 2 THEN "low" ELSE "none"

\* C5: under the default configuration, a log of n violations, all of one
\* type T with default threshold k, has n <= k, and the monitor is terminated
\* if and only if n = k; the warning level is then that of a total of k.
C5_SingleTypeRunTerminatesAtThreshold ==
  \A T \in ViolationType :
    LET n == Len(state.violations)
        k == TaxonomyThreshold[T]
    IN (/\ config = DEFAULT_CONFIG
        /\ n > 0
        /\ \A i \in 1..n : state.violations[i].type = T)
       => /\ n <= k
          /\ state.totalViolations = n
          /\ state.isTerminated <=> (n = k)
          /\ state.isTerminated => state.warningLevel = DefaultLevel(k)

\* Three TAB_SWITCH violations under the default configuration.
C5_Witness ==
  /\ config = DEFAULT_CONFIG
  /\ Len(state.violations) = 3
  /\ \A i \in 1..3 : state.violations[i].type = "TAB_SWITCH"
  /\ state.isTerminated
  /\ state.totalViolations = 3
  /\ state.warningLevel = "low"

\* The warning level of a total under warning thresholds.
LevelOf(total, thresholds) ==
  CASE total >= thresholds.high -> "high"
    [] total < thresholds.high /\ total >= thresholds.medium -> "medium"
    [] total < thresholds.high /\ total < thresholds.medium
         /\ total >= thresholds.low -> "low"
    [] OTHER -> "none"

\* C6: warningLevel is the level of totalViolations under the configured
\* warning thresholds.
C6_WarningLevelIsLevelOfTotal ==
  state.warningLevel = LevelOf(state.totalViolations, config.warningThresholds)

\* A handler has recorded the violation that raised the level to high.
C6_Witness ==
  /\ Recorded(attempts)
  /\ state.warningLevel = "high"
  /\ state.totalViolations = config.warningThresholds.high

\* C7: isTerminated goes from true to false only by clearViolations.
C7_TerminatedUntilClearViolations ==
  [][ (state.isTerminated /\ ~state'.isTerminated) =>
        op' = "ClearViolations" ]_vars

\* startMonitoring has run on a terminated monitor, which is monitoring and
\* terminated.
C7_Witness ==
  /\ op = "StartMonitoringAwaited"
  /\ state.isMonitoring
  /\ state.isTerminated

\* C8: clearViolations leaves the log empty, the counts zero,
\* totalViolations 0, warningLevel none and isTerminated false, and does not
\* change isMonitoring, the registered watchers or the interval poll.
C8_ClearViolationsResets ==
  [][ op' = "ClearViolations" =>
        /\ state'.violations = << >>
        /\ \A t \in ViolationType : state'.violationCounts[t] = 0
        /\ state'.totalViolations = 0
        /\ state'.warningLevel = "none"
        /\ ~state'.isTerminated
        /\ state'.isMonitoring = state.isMonitoring
        /\ listeners' = listeners
        /\ devToolsCheckInterval' = devToolsCheckInterval
        /\ browser' = browser ]_vars

\* clearViolations has run on a monitor that is monitoring, with its
\* watchers registered.
C8_Witness ==
  /\ op = "ClearViolations"
  /\ state.isMonitoring
  /\ listeners # {}
  /\ browser.intervals > 0

\* C9: whenever isMonitoring is false, no signal watcher and no devtools
\* interval poll is registered, in every interleaving of start, stop and the
\* completion of start's fullscreen request.
C9_IdleHasNoWatchers ==
  ~state.isMonitoring =>
    /\ \A e \in EventNames : browser.listeners[e] = 0
    /\ browser.intervals = 0

\* C10: on both detectors a second consecutive stop changes nothing: from
\* every state, stopMonitoring after stopMonitoring leaves the monitor as
\* the first call left it, and stopDetection after stopDetection leaves the
\* analyzer as the first call left it.
C10_StopIsIdempotent ==
  /\ stopMonitoring(stopMonitoring(This)) = stopMonitoring(This)
  /\ stopDetection(stopDetection(Analyzer)) = stopDetection(Analyzer)

\* stopDetection has run with an inference call in flight, beside a
\* monitor that is terminated, idle and still fullscreen.
C10_Witness ==
  /\ op = "StopDetection"
  /\ detection.detectionLoop = 0
  /\ detection.inferences > 0
  /\ state.isTerminated
  /\ ~state.isMonitoring
  /\ browser.fullscreenElement

\* C11: while detection is stopped (stopDetection has returned and
\* startDetectionLoop has not been called since) the suspicion counter is
\* 0, no frame is scheduled and no detection result is delivered, also when
\* stopDetection was called with an inference call in flight.
C11_StoppedLoopProcessesNothing ==
  ~detection.isDetecting =>
    /\ detection.cheatingCounter = 0
    /\ detection.frames = {}
    /\ results = << >>

\* C12: at most one landmark-inference call is in flight at any time, in
\* every interleaving of start, stop, frame callbacks and completions.
C12_AtMostOneInferenceInFlight == detection.inferences <= 1

\* C13: the suspicion counter is within [0, 60] in every reachable state,
\* for every sequence of anomalous, clean and no-face frames, calibrate
\* calls and stopDetection calls.
C13_CounterWithinRange ==
  /\ detection.cheatingCounter >= 0
  /\ detection.cheatingCounter <= 60

\* An anomalous frame has been processed with the counter at its ceiling.
C13_Witness ==
  /\ op = "FrameProcessed"
  /\ detection.cheatingCounter = 60
  /\ Len(results) = 1
  /\ Len(results[1].warnings) > 0
  /\ results[1].warningLevel = "warning"

\* The resize watcher is registered and has a baseline.
WatchingResize ==
  /\ browser.listeners["resize"] > 0
  /\ windowSize # NullSize

Within50(size, baseline) ==
  /\ Abs(size.width - baseline.width) <= 50
  /\ Abs(size.height - baseline.height) <= 50

\* C14: a resize event whose width delta and height delta from the resize
\* baseline are both at most 50 px records no violation and leaves the
\* baseline unchanged.
C14_SmallResizeIsIgnored ==
  [][\A current \in ResizeSizes :
       (WatchingResize /\ Within50(current, windowSize) /\ Resize(current))
       => /\ attempts' = << >>
          /\ state' = state
          /\ calls' = << >>
          /\ windowSize' = windowSize]_vars

\* The window went from 1920x1080 to 1870x1030 under a monitoring watcher:
\* nothing was recorded and the baseline is still 1920x1080.
C14_Witness ==
  /\ op = "Resize"
  /\ state.isMonitoring
  /\ ~state.isTerminated
  /\ browser.listeners["resize"] > 0
  /\ browser.innerSize = Size(1870, 1030)
  /\ windowSize = Size(1920, 1080)
  /\ attempts = << >>

\* C15: a resize event while monitoring and not terminated where either
\* axis delta from the baseline exceeds 50 px records exactly one
\* WINDOW_RESIZE violation and makes the current size the baseline (so an
\* event at that same size then records nothing, and a resize back records
\* a second violation).
C15_LargeResizeRecordsOnce ==
  [][\A current \in ResizeSizes :
       (/\ WatchingResize
        /\ state.isMonitoring
        /\ ~state.isTerminated
        /\ ~Within50(current, windowSize)
        /\ Resize(current))
       => /\ attempts' = <<[type |-> "WINDOW_RESIZE", ignored |-> FALSE]>>
          /\ state'.totalViolations = state.totalViolations + 1
          /\ state'.violationCounts["WINDOW_RESIZE"]
               = state.violationCounts["WINDOW_RESIZE"] + 1
          /\ windowSize' = current]_vars

\* The window went to 1800x1080 and back to 1920x1080: the second event
\* recorded the second violation and the baseline is 1920x1080 again.
C15_Witness ==
  /\ op = "Resize"
  /\ attempts = <<[type |-> "WINDOW_RESIZE", ignored |-> FALSE]>>
  /\ state.violationCounts["WINDOW_RESIZE"] = 2
  /\ state.totalViolations = 2
  /\ browser.listeners["resize"] = 2
  /\ windowSize = Size(1920, 1080)
  /\ browser.innerSize = Size(1920, 1080)

\* C16: processing a frame with zero faces returns warningLevel "warning",
\* warnings ["No face detected"], face count 0 and every gaze and head
\* number zero, and leaves the suspicion counter as it was.
C16_NoFaceFrame ==
  [][\A handle \in 1..(MaxLoops + 2) :
       FrameProcessed(handle, NoFace)
       => /\ Len(results') = 1
          /\ results'[1].warningLevel = "warning"
          /\ results'[1].warnings = <<"No face detected">>
          /\ results'[1].multipleFaces.count = 0
          /\ \A f \in DOMAIN results'[1].gaze : results'[1].gaze[f] = Zero
          /\ results'[1].headMovement.angle = Zero
          /\ detection'.cheatingCounter = detection.cheatingCounter]_vars

\* A frame without a face has been processed at a counter above the
\* warning threshold, which it left there.
C16_Witness ==
  /\ op = "FrameProcessed"
  /\ Len(results) = 1
  /\ results[1].warnings = <<"No face detected">>
  /\ detection.cheatingCounter = 31

\* The landmark sets of one face that every function can read.
ValidFaces == {Centered, LookingRight, LookingLeftUp, Turned, WideEyed}

\* C17: while the stored calibration has isCalibrated false, for every
\* landmark set and its gaze sample isGazeOutOfBounds reports not out,
\* detectUpGaze reports false and detectHeadMovement reports not moving.
C17_NoAnomalyBeforeCalibration ==
  ~detection.calibrationData.isCalibrated =>
    \A landmarks \in ValidFaces \cup {Degenerate} :
      /\ ~isGazeOutOfBounds(detectGaze(landmarks),
                            detection.calibrationData).isOut
      /\ ~detectUpGaze(landmarks, detection.calibrationData)
      /\ ~detectHeadMovement(landmarks, detection.calibrationData).isMoving

\* The baselines of one frame, computed from the landmarks alone.
SingleFrameBaselines(landmarks) ==
  [ centerH |-> detectGaze(landmarks).avgH,
    centerV |-> detectGaze(landmarks).avgV,
    baselineEyeOpening |-> calculateBaselineEyeOpening(landmarks),
    baselineHeadYaw |->
      detectHeadMovement(landmarks, InitialDetection.calibrationData).angle ]

\* C18: for every landmark set of one valid face, calibrate sets
\* isCalibrated and stores the center gaze, baseline eye opening and
\* baseline head yaw computed from that input alone, whatever was stored
\* before; calibrating again with the same input stores the same; the
\* tolerances are unchanged and strictly positive.
C18_CalibrateStoresSingleFrameBaselines ==
  [][\A landmarks \in ValidFaces :
       Calibrate(landmarks)
       => LET stored == detection'.calibrationData
              single == SingleFrameBaselines(landmarks)
          IN /\ thrown' = NULL
             /\ stored.isCalibrated
             /\ \A f \in DOMAIN single : stored[f] = single[f]
             /\ \A f \in DOMAIN single : isFinite(stored[f])
             /\ calibrate(calibrate(Analyzer, landmarks),
                          landmarks).calibrationData = stored
             /\ stored.tolerance = detection.calibrationData.tolerance
             /\ \A t \in DOMAIN stored.tolerance :
                  GreaterThan(stored.tolerance[t], Zero)]_vars

\* calibrate has run during detection on the face turned aside, over a
\* calibration made before: the stored yaw is that face's 22.5 degrees.
C18_Witness ==
  /\ op = "Calibrate"
  /\ thrown = NULL
  /\ detection.calibrationData.isCalibrated
  /\ detection.calibrationData.baselineHeadYaw = Ratio(45, 2)
  /\ detection.calibrationData.centerH = Ratio(1, 2)
  /\ detection.cheatingCounter > 0

\* C19: calibrate called with an empty, too short or degenerate landmark
\* set fails with a CalibrationError and leaves the stored calibration as
\* it was.
C19_MalformedCalibrationFails ==
  [][\A landmarks \in {Empty, TooShort, Degenerate} :
       Calibrate(landmarks)
       => /\ thrown' = "CalibrationError"
          /\ detection'.calibrationData = detection.calibrationData]_vars

\* Gaze samples at the center of the calibration and one and two
\* tolerances from it on each axis.
GazeSamples(calibrationData) ==
  LET Axis(center, tolerance) ==
        { Minus(center, Times(Ratio(2, 1), tolerance)),
          Minus(center, tolerance), center, Plus(center, tolerance),
          Plus(center, Times(Ratio(2, 1), tolerance)) }
  IN { [leftH |-> h, rightH |-> h, leftV |-> v, rightV |-> v,
        avgH |-> h, avgV |-> v] :
         h \in Axis(calibrationData.centerH, calibrationData.tolerance.h),
         v \in Axis(calibrationData.centerV, calibrationData.tolerance.v) }

Diagonals == {"RIGHT-DOWN", "LEFT-DOWN", "RIGHT-UP", "LEFT-UP"}

\* C20: isGazeOutOfBounds gives one diagonal label exactly when both axes
\* are beyond their tolerance, and otherwise at most one horizontal label
\* followed by at most one vertical label; avgH below centerH - toleranceH
\* is RIGHT, so avgH = centerH - 2*toleranceH with avgV = centerV gives
\* exactly [RIGHT].
C20_GazeLabels ==
  LET cal == detection.calibrationData
      lowH == Minus(cal.centerH, cal.tolerance.h)
      highH == Plus(cal.centerH, cal.tolerance.h)
      lowV == Minus(cal.centerV, cal.tolerance.v)
      highV == Plus(cal.centerV, cal.tolerance.v)
  IN \A gaze \in GazeSamples(cal) :
       LET direction == isGazeOutOfBounds(gaze, cal).direction
           beyondH == LessThan(gaze.avgH, lowH) \/ GreaterThan(gaze.avgH, highH)
           beyondV == LessThan(gaze.avgV, lowV) \/ GreaterThan(gaze.avgV, highV)
           horizontal == {i \in DOMAIN direction : direction[i] \in {"RIGHT", "LEFT"}}
           vertical == {i \in DOMAIN direction : direction[i] \in {"DOWN", "UP"}}
       IN /\ (beyondH /\ beyondV)
               <=> (Len(direction) = 1 /\ direction[1] \in Diagonals)
          /\ ~(beyondH /\ beyondV)
               => /\ DOMAIN direction = horizontal \cup vertical
                  /\ Cardinality(horizontal) = (IF beyondH THEN 1 ELSE 0)
                  /\ Cardinality(vertical) = (IF beyondV THEN 1 ELSE 0)
                  /\ \A i \in horizontal, j \in vertical : i < j
          /\ (LessThan(gaze.avgH, lowH) /\ ~beyondV) => direction = <<"RIGHT">>
          /\ (/\ isFinite(cal.centerH)
              /\ isFinite(cal.centerV)
              /\ gaze.avgH = Minus(cal.centerH,
                                   Times(Ratio(2, 1), cal.tolerance.h))
              /\ gaze.avgV = cal.centerV)
               => direction = <<"RIGHT">>

\* A calibrated analyzer has processed a frame whose gaze is two
\* tolerances below the center horizontally and at the center vertically,
\* and warned of a look to the right.
C20_Witness ==
  /\ op = "FrameProcessed"
  /\ detection.calibrationData.isCalibrated
  /\ Len(results) = 1
  /\ results[1].gaze.avgH
       = Minus(detection.calibrationData.centerH,
               Times(Ratio(2, 1), detection.calibrationData.tolerance.h))
  /\ results[1].gaze.avgV = detection.calibrationData.centerV
  /\ results[1].warnings = <<"Looking RIGHT">>

\* C21: a frame whose inference call fails delivers no result and leaves
\* the counter as it was, and the loop goes on: the next frame is
\* requested, and after a failure a frame whose inference succeeds is
\* eventually processed and its result delivered.
C21_FailedFrameIsSkipped ==
  /\ [][(\E frame \in {Clean, TwoFaces, NoFace} : InferenceSettles(TRUE, frame))
          => /\ results' = << >>
             /\ detection'.cheatingCounter = detection.cheatingCounter
             /\ detection'.detectionLoop \in detection'.frames]_vars
  /\ (op = "InferenceFails") ~> (op = "InferenceSettles" /\ Len(results) = 1)

\* An inference has failed at a counter above zero and the next frame is
\* requested.
C21_Witness ==
  /\ op = "InferenceFails"
  /\ detection.cheatingCounter > 0
  /\ detection.inferences = 0
  /\ detection.detectionLoop \in detection.frames

\* C22: when loading the inference backend fails the caller gets the error
\* and the analyzer is not marked initialized; while the analyzer is not
\* initialized a start of detection changes nothing, no frame is requested,
\* no inference runs and no result is delivered.
C22_FailedInitializationBlocksDetection ==
  [][/\ (InitFaceLandmarker(FALSE) /\ ~detection.isInitialized)
          => /\ thrown' = "Error"
             /\ ~detection'.isInitialized
             /\ ~detection'.faceLandmarker
     /\ (StartDetection /\ ~detection.isInitialized)
          => detection' = detection
     /\ ~detection'.isInitialized
          => /\ detection'.frames = {}
             /\ detection'.inferences = 0
             /\ ~detection'.isDetecting
             /\ results' = << >>]_vars

\* Loading has failed and the error was thrown to the caller.
C22_Witness ==
  /\ op = "InitFaceLandmarker"
  /\ thrown = "Error"
  /\ ~detection.isInitialized

\* C23: a processed frame with at least one face sets the suspicion counter
\* c to min(c + 2, 60) when the frame's result carries a warning and to
\* max(c - 3, 0) when it carries none; away from the ceiling and the floor
\* the decrease (3) is strictly larger than the increase (2).
C23_CounterStep ==
  [][\A handle \in 1..(MaxLoops + 2), faceLandmarks \in Frames :
       (Len(faceLandmarks) > 0 /\ FrameProcessed(handle, faceLandmarks)
          /\ results' # << >>)
         => LET c == detection.cheatingCounter
                after == detection'.cheatingCounter
            IN IF Len(results'[1].warnings) > 0
               THEN /\ after = IF c + 2 > 60 THEN 60 ELSE c + 2
                    /\ after - c < 3
               ELSE /\ after = IF c - 3 < 0 THEN 0 ELSE c - 3
                    /\ (c >= 3 => c - after > 2)]_vars

\* A clean frame has brought the counter from 4, where two anomalous frames
\* had put it, to 1.
C23_Witness ==
  /\ op = "FrameProcessed"
  /\ Len(results) = 1
  /\ results[1].multipleFaces.count = 1
  /\ Len(results[1].warnings) = 0
  /\ detection.cheatingCounter = 1

\* The frames like faceLandmarks that processDetectionResults takes, one
\* after the other, until the counter of analyzer a is at target.
RECURSIVE FramesUntil(_, _, _)
FramesUntil(a, faceLandmarks, target) ==
  IF a.cheatingCounter = target THEN 0
  ELSE 1 + FramesUntil(processDetectionResults(a, faceLandmarks),
                       faceLandmarks, target)

\* A frame has left the counter at its floor or at its ceiling, and for the
\* analyzer as it is calibrated the centred face is a clean frame and two
\* faces are an anomalous one.
CleanAndAnomalous ==
  /\ op = "FrameProcessed"
  /\ detection.cheatingCounter \in {0, 60}
  /\ Len(processDetectionResults(Analyzer, Clean).results[1].warnings) = 0
  /\ Len(processDetectionResults(Analyzer, TwoFaces).results[1].warnings) > 0

CleanFramesFromCeiling ==
  FramesUntil([Analyzer EXCEPT !.cheatingCounter = 60], Clean, 0)

AnomalousFramesToCeiling ==
  FramesUntil([Analyzer EXCEPT !.cheatingCounter = 0], TwoFaces, 60)

\* C24: the suspicion counter decays slower than it grows: more consecutive
\* clean frames are needed to bring it from its ceiling to zero than
\* consecutive anomalous frames to raise it from zero to the ceiling.
C24_DecaysSlowerThanItGrows ==
  CleanAndAnomalous => CleanFramesFromCeiling > AnomalousFramesToCeiling

\* C24, amended: the suspicion counter decays faster than it grows: 20
\* consecutive clean frames bring it from its ceiling to zero and 30
\* consecutive anomalous frames raise it from zero to the ceiling.
C24_DecaysFasterThanItGrows ==
  CleanAndAnomalous
    => /\ CleanFramesFromCeiling = 20
       /\ AnomalousFramesToCeiling = 30
       /\ CleanFramesFromCeiling < AnomalousFramesToCeiling

\* A clean frame has taken the counter down from its ceiling, where
\* anomalous frames had raised it.
C24_Witness ==
  /\ op = "FrameProcessed"
  /\ Len(results) = 1
  /\ Len(results[1].warnings) = 0
  /\ detection.cheatingCounter = 57

\* The warning levels of n frames like faceLandmarks that
\* processDetectionResults takes one after the other.
RECURSIVE LevelsOf(_, _, _)
LevelsOf(a, faceLandmarks, n) ==
  IF n = 0 THEN << >>
  ELSE LET after == processDetectionResults(a, faceLandmarks)
       IN <<after.results[Len(after.results)].warningLevel>>
            \o LevelsOf(after, faceLandmarks, n - 1)

\* C25: the warningLevel of a processed frame with at least one face is
\* warning when the updated counter is above the warning threshold (30),
\* caution when it is above the caution threshold (15) and ok otherwise; so
\* of consecutive anomalous frames from counter 0, the 8th is the first
\* with caution and the 16th the first with warning.
C25_WarningLevel ==
  /\ detection.config.warningThreshold = 30
  /\ detection.config.cautionThreshold = 15
  /\ (op = "FrameProcessed" /\ results # << >>
        /\ results[1].multipleFaces.count > 0)
       => results[1].warningLevel =
            IF detection.cheatingCounter > 30 THEN "warning"
            ELSE IF detection.cheatingCounter > 15 THEN "caution"
            ELSE "ok"
  /\ (op \in {"StartDetection", "StopDetection"}
        /\ detection.cheatingCounter = 0)
       => LET levels == LevelsOf(Analyzer, TwoFaces, 16)
          IN \A n \in 1..16 :
               levels[n] = IF n < 8 THEN "ok"
                           ELSE IF n < 16 THEN "caution"
                           ELSE "warning"

\* The eighth anomalous frame in a row from counter 0 has been processed,
\* with caution.
C25_Witness ==
  /\ op = "FrameProcessed"
  /\ Len(results) = 1
  /\ Len(results[1].warnings) > 0
  /\ detection.cheatingCounter = 16
  /\ results[1].warningLevel = "caution"

\* C26: while isCalibrated is false, processing a frame with at least one
\* face (one or several) gives an empty warnings list and does not increase
\* the suspicion counter.
C26_NoWarningBeforeCalibration ==
  [][(/\ op' = "FrameProcessed"
      /\ ~detection.calibrationData.isCalibrated
      /\ results' # << >>
      /\ results'[1].multipleFaces.count > 0)
       => /\ results'[1].warnings = << >>
          /\ detection'.cheatingCounter <= detection.cheatingCounter]_vars

\* The handler's step has terminated the monitor.
Terminates == ~state.isTerminated /\ state'.isTerminated

\* Each termination observer is called with isTerminated already true and
\* with the whole log, which is totalViolations long and ends with the
\* violation that triggered the termination.
TerminationObserversSeeTheLog ==
  \A i \in DOMAIN calls' :
    calls'[i].kind = "termination"
      => /\ calls'[i].state.isTerminated
         /\ calls'[i].arg = state'.violations
         /\ Len(calls'[i].arg) = state'.totalViolations
         /\ calls'[i].arg[Len(calls'[i].arg)].type
              = attempts'[Len(attempts')].type

\* C27: when a violation triggers termination, isTerminated is true before
\* any termination observer is called, each termination observer gets the
\* full log (as long as totalViolations, its last entry the triggering
\* violation), and when the termination is complete isMonitoring is false,
\* no watcher is registered and the devtools poll is cancelled.
C27_TerminationStopsEverything ==
  [][Terminates
       => /\ TerminationObserversSeeTheLog
          /\ ~state'.isMonitoring
          /\ \A e \in EventNames : browser'.listeners[e] = 0
          /\ browser'.intervals = 0]_vars

\* The invocations of the violation observers among cs.
ViolationCalls(cs) ==
  LET IsViolation(c) == c.kind = "violation" IN SelectSeq(cs, IsViolation)

\* C28: for each violation a handler records, every registered violation
\* observer is called once, in the order of registration, with the log, the
\* counts and warningLevel already updated for that violation and before
\* the termination check (isTerminated is still false) and any termination
\* observer.
C28_ViolationObserversInOrder ==
  [][LET before == Len(state.violations)
         n == Len(state'.violations) - before
         m == Len(violationCallbacks)
         notified == ViolationCalls(calls')
     IN n > 0
          => /\ Len(notified) = n * m
             /\ \A k \in 1..n, i \in 1..m :
                  LET c == notified[(k - 1) * m + i]
                      v == state'.violations[before + k]
                      sameType == {j \in 1..k :
                                     state'.violations[before + j].type = v.type}
                  IN /\ c.cb = violationCallbacks[i]
                     /\ c.arg = <<v>>
                     /\ c.state.violations
                          = SubSeq(state'.violations, 1, before + k)
                     /\ c.state.totalViolations = state.totalViolations + k
                     /\ c.state.violationCounts[v.type]
                          = state.violationCounts[v.type] + Cardinality(sameType)
                     /\ c.state.warningLevel
                          = LevelOf(c.state.totalViolations,
                                    config.warningThresholds)
                     /\ ~c.state.isTerminated
             /\ \A i, j \in DOMAIN calls' :
                  (calls'[i].kind = "violation" /\ calls'[j].kind = "termination")
                    => i < j]_vars

\* A violation has been recorded with two violation observers registered:
\* both were called, in their order, and then the termination observers.
C28_Witness ==
  /\ Len(violationCallbacks) = 2
  /\ violationCallbacks[1] # violationCallbacks[2]
  /\ Callees(calls, "violation") = violationCallbacks
  /\ state.isTerminated
  /\ Len(calls) > 2

\* The document leaves fullscreen while the fullscreenchange watcher is
\* registered and the monitor is monitoring and not terminated.
FullscreenExitSignal ==
  /\ browser.fullscreenElement /\ ~browser'.fullscreenElement
  /\ Listening("fullscreenchange")
  /\ state.isMonitoring /\ ~state.isTerminated

\* C29: each fullscreen-exit signal received while monitoring and not
\* terminated records exactly one FULLSCREEN_EXIT violation and schedules
\* exactly one delayed re-request; when the delay has elapsed the re-request
\* is made if and only if isMonitoring is true and the document is not
\* fullscreen.
C29_FullscreenExitRecordedOnce ==
  [][/\ FullscreenExitSignal
          => /\ Len(state'.violations) = Len(state.violations) + 1
             /\ state'.violations[Len(state'.violations)].type
                  = "FULLSCREEN_EXIT"
             /\ browser'.timers = browser.timers + 1
     /\ op' = "ReRequestTimeout"
          => browser'.reRequests =
               IF state.isMonitoring /\ ~browser.fullscreenElement
               THEN browser.reRequests + 1
               ELSE browser.reRequests]_vars

\* startMonitoring runs on an idle monitor with fullscreen enabled and its
\* fullscreen request is refused.
StartWithRequestRefused ==
  /\ ~state.isMonitoring
  /\ config.enableFullscreen
  /\ StartMonitoringAwaited(FALSE, browser.innerSize)

\* C30: when the fullscreen request made by start fails, start completes
\* with isMonitoring true, every enabled watcher registered and the resize
\* baseline the current window size; isFullscreen is false and the failure
\* records no violation.
C30_RefusedFullscreenIsNotFatal ==
  [][StartWithRequestRefused
       => /\ state'.isMonitoring
          /\ listeners' = EnabledEvents(config)
          /\ \A e \in EnabledEvents(config) : browser'.listeners[e] > 0
          /\ config.enableDevToolsPrevention => browser'.intervals > 0
          /\ windowSize' = browser.innerSize
          /\ ~state'.isFullscreen
          /\ state'.violations = state.violations
          /\ attempts' = << >>]_vars

\* The calls of recordViolation in as that were not ignored.
Accepted(as) ==
  LET NotIgnored(a) == ~a.ignored IN SelectSeq(as, NotIgnored)

\* C31: every step other than clearViolations leaves the log it found as a
\* prefix of the new log, and each recorded violation is one entry more at
\* the end, in the order of the recordings.
C31_LogIsAppendOnly ==
  [][op' # "ClearViolations"
       => LET before == Len(state.violations)
              recorded == Accepted(attempts')
          IN /\ Len(state'.violations) = before + Len(recorded)
             /\ SubSeq(state'.violations, 1, before) = state.violations
             /\ \A k \in 1..Len(recorded) :
                  state'.violations[before + k].type = recorded[k].type]_vars

\* A violation has been recorded behind one of another type.
C31_Witness ==
  /\ op # "ClearViolations"
  /\ Len(Accepted(attempts)) = 1
  /\ Len(state.violations) >= 2
  /\ state.violations[1].type # state.violations[Len(state.violations)].type

\* C32: detectGaze never divides by zero: every field of the gaze sample of
\* a processed frame is a finite number, also when an eye of the face has
\* width or height zero.
C32_GazeIsFinite ==
  \A i \in DOMAIN results :
    \A field \in {"leftH", "rightH", "leftV", "rightV", "avgH", "avgV"} :
      isFinite(results[i].gaze[field])

\* The frames of n faces that begin with face first, and the one of them
\* whose other faces are first again.
FramesBeginning(first, n) ==
  {<<first>> \o others : others \in [1..(n - 1) -> {Centered, Turned, Degenerate}]}

Repeated(first, n) == [i \in 1..n |-> first]

\* C33: the faces of a frame other than the first act on
\* processDetectionResults through their number only: from the same
\* analyzer, two frames with the same first face and as many faces give the
\* same result and the same counter, whatever the other faces are; the
\* count of the result is the number of faces and multipleDetected is
\* count > 1.
C33_OtherFacesCountOnly ==
  \A first \in {Centered, LookingRight}, n \in 1..3 :
    LET expected == processDetectionResults(Analyzer, Repeated(first, n))
    IN \A faceLandmarks \in FramesBeginning(first, n) :
         LET after == processDetectionResults(Analyzer, faceLandmarks)
         IN /\ after = expected
            /\ after.results[1].multipleFaces.count = n
            /\ after.results[1].multipleFaces.multipleDetected = (n > 1)

\* A frame of two faces has been processed by a calibrated analyzer: the
\* first face is clean, the second is turned away, and the only warning is
\* the one of the count.
C33_Witness ==
  /\ op = "FrameProcessed"
  /\ detection.calibrationData.isCalibrated
  /\ Len(results) = 1
  /\ results[1].multipleFaces.count = 2
  /\ results[1].warnings = <<PeopleDetected(2)>>

\* C34: in every interleaving of start, stop and browser signals each kind
\* of watcher is registered at most once and at most one devtools poll is
\* active, so one browser signal records at most one violation.
C34_WatchersRegisteredOnce ==
  [][/\ \A e \in EventNames : browser'.listeners[e] <= 1
     /\ browser'.intervals <= 1
     /\ Len(Accepted(attempts')) <= 1]_vars

\* C35: under the default configuration totalViolations is at most 10 and
\* every per-type count at most the threshold of its type; while
\* isTerminated is false totalViolations is below 10 and every per-type
\* count below its threshold.
C35_CountsWithinThresholds ==
  config = DEFAULT_CONFIG
    => /\ state.totalViolations <= 10
       /\ \A t \in ViolationType :
            state.violationCounts[t] <= TaxonomyThreshold[t]
       /\ ~state.isTerminated
            => /\ state.totalViolations < 10
               /\ \A t \in ViolationType :
                    state.violationCounts[t] < TaxonomyThreshold[t]

\* The tenth violation has terminated the monitor with every per-type count
\* below its threshold.
C35_Witness ==
  /\ config = DEFAULT_CONFIG
  /\ state.isTerminated
  /\ state.totalViolations = 10
  /\ Len(state.violations) = 10
  /\ \A t \in ViolationType :
       state.violationCounts[t] < TaxonomyThreshold[t]

\* C36: stop records no violation itself: neither the call of
\* stopMonitoring nor the fullscreen exit it asks for (the settling of its
\* document.exitFullscreen()) records a FULLSCREEN_EXIT violation or
\* schedules a fullscreen re-request.
C36_StopRecordsNothing ==
  [][op' \in {"StopMonitoring", "ExitRequestSettles"}
       => /\ attempts' = << >>
          /\ state'.violations = state.violations
          /\ browser'.timers = browser.timers]_vars

\* C37: a snapshot returned by getState is isolated from later mutations:
\* violations recorded after the call change neither its violation list
\* nor its per-type counts, so in a held snapshot totalViolations is the
\* length of the violation list and the sum of the per-type counts.
C37_SnapshotIsIsolated ==
  snapshot.taken
    => /\ snapshot.state.totalViolations = Len(snapshot.state.violations)
       /\ snapshot.state.totalViolations
            = SumOver(snapshot.state.violationCounts, ViolationType)

\* The callbacks of the subscriptions of a kind whose unsubscribe function
\* has not been called, in the order of subscription.
Subscribed(kind) ==
  LET Live(u) == u.kind = kind /\ ~u.called
      live == SelectSeq(unsubscribers, Live)
  IN [i \in 1..Len(live) |-> live[i].cb]

\* C38: calling the function onViolation or onTermination returned removes
\* exactly that one registration: the registries hold the callbacks of the
\* subscriptions whose function was never called, one entry each (a second
\* subscription of the same function included, and however often a
\* function was called), and a recorded violation invokes exactly those.
C38_UnsubscribeRemovesOneRegistration ==
  /\ violationCallbacks = Subscribed("violation")
  /\ terminationCallbacks = Subscribed("termination")
  /\ (op = "ContextMenu" /\ Len(Accepted(attempts)) = 1)
       => Callees(calls, "violation") = Subscribed("violation")

\* The recordViolation calls a key press leads to in the current state.
KeyDownAttempts(e) ==
  Dispatch(This, "keydown", LAMBDA w : handleKeyDown(w, e)).attempts

\* C39: while the monitor runs with dev-tools prevention enabled, every key
\* press that matches an entry listed under "Developer Tools" (F12,
\* Ctrl+Shift+I/J/C, Meta+Alt+I/J/C) records exactly one violation, of type
\* DEV_TOOLS.
C39_DevToolsShortcutsRecordDevTools ==
  ( /\ Listening("keydown")
    /\ state.isMonitoring
    /\ ~state.isTerminated
    /\ config.enableDevToolsPrevention )
    => \A e \in DevToolsKeyEvents :
         /\ Len(KeyDownAttempts(e)) = 1
         /\ KeyDownAttempts(e)[1].type = "DEV_TOOLS"
         /\ ~KeyDownAttempts(e)[1].ignored

====
